---- MODULE Spec2Model ----
(***************************************************************************)
(* Model of the combat core of Sulis: the damage resolution engine         *)
(* (sulis_rules/src/damage.rs), the per-entity actor state                 *)
(* (sulis_state/src/actor_state.rs) and the script bridge                  *)
(* (sulis_state/src/script/script_entity.rs).                              *)
(*                                                                         *)
(* SpecDamage drives one DamageList through new / create / roll.           *)
(* SpecStats drives one ActorState through new, equip, unequip and         *)
(* compute_stats.                                                          *)
(* SpecActor drives two actors through attack, remove_ap, remove_hp,       *)
(* init, init_turn and end_turn.                                           *)
(* SpecCanAttack drives the AP of two actors and the can_attack query.     *)
(* SpecScript drives the script calls made on ScriptEntity handles.        *)
(* SpecSet drives the filters and the reload of a ScriptEntitySet.         *)
(***************************************************************************)
EXTENDS Integers, Sequences, FiniteSets, TLC

VARIABLES
  list,      \* DamageList: the list under test / the list rolled by attack
  call,      \* the last call made on the DamageList, with its arguments
  output,    \* what the last DamageList::roll returned
  panicked,  \* the process was aborted by a panic
  rules,     \* Module::rules(): the loaded, immutable ruleset
  stats,     \* ActorState::stats of each actor
  hp,        \* ActorState::hp of each actor
  ap,        \* ActorState::ap of each actor
  acall,     \* the last call made on an ActorState, with its arguments
  result,    \* what the last ActorState::attack returned
  notified,  \* the listener notifications of the last call, in order
  registry,  \* the turn manager's entities, by index
  eset,      \* the ScriptEntitySet a script holds
  scall,     \* the last script call, with its arguments
  sret,      \* what the last script call returned
  queued,    \* the animations, effects and targeters the last call made
  state,     \* one ActorState: its actor, inventory and stats
  ccall,     \* the last call that built or recomputed the stats
  heard      \* the StatLists the listeners saw during the last call

dvars == <<list, call, output, panicked>>

avars == <<rules, stats, hp, ap, acall, result, notified>>

svars == <<registry, eset, scall, sret, queued>>

cvars == <<state, ccall, heard>>

vars == <<list, call, output, panicked, rules, stats, hp, ap, acall, result,
          notified, registry, eset, scall, sret, queued, state, ccall, heard>>

(***************************************************************************)
(* Bounds of the model.                                                    *)
(***************************************************************************)
MaxDmg == 1        \* the non-zero min / max value of an input Damage
MaxBonus == 2      \* longest bonus_damage vector passed to create
MaxArmor == 2      \* largest base armor value
MaxHP == 3         \* largest max_hp of an actor
MaxDist == 2       \* largest distance between two entities, in tiles
MaxAP == 2         \* largest base_ap / attack_ap of the rules
MaxTargets == 2    \* longest list of targets of a ScriptEntitySet
MaxLevel == 2      \* highest class level and base initiative
MaxComponents == 3 \* components a list may hold when create is called again

(***************************************************************************)
(* damage.rs: DamageKind, Damage                                           *)
(***************************************************************************)
\* enum DamageKind, in declaration order (the derived Ord)
DamageKind ==
  <<"Slashing", "Piercing", "Crushing", "Acid", "Cold", "Electrical",
    "Fire", "Sonic", "Raw">>

DamageKinds == {DamageKind[i] : i \in 1..Len(DamageKind)}

\* Option<DamageKind>::None
None == "None"

\* The derived Ord of Option<DamageKind>: None sorts before every Some(kind),
\* the kinds sort in declaration order.
KindOrd(kind) ==
  IF kind = None THEN 0
  ELSE CHOOSE i \in 1..Len(DamageKind) : DamageKind[i] = kind

\* struct Damage { min, max, kind }
Damage(mn, mx, kind) == [min |-> mn, max |-> mx, kind |-> kind]

\* Damage::add: only min and max are summed, self keeps its kind
add(self, other) ==
  [self EXCEPT !.min = @ + other.min, !.max = @ + other.max]

\* DamageList::new
DamageList_new == [damage |-> <<>>, min |-> 0, max |-> 0]

(***************************************************************************)
(* DamageList::create                                                      *)
(***************************************************************************)
\* Vec::sort_by_key(|d| d.kind): a stable sort, elements with equal keys
\* keep their relative order.
RECURSIVE InsertByKind(_, _)
InsertByKind(sorted, d) ==
  IF sorted = <<>> THEN <<d>>
  ELSE IF KindOrd(sorted[Len(sorted)].kind) <= KindOrd(d.kind)
       THEN Append(sorted, d)
       ELSE Append(InsertByKind(SubSeq(sorted, 1, Len(sorted) - 1), d),
                   sorted[Len(sorted)])

\* The vector left in the order in which it was given.
sort_by_key_keeps_order(v) == v

RECURSIVE sort_by_key(_)
sort_by_key(v) ==
  IF v = <<>> THEN <<>>
  ELSE InsertByKind(sort_by_key(SubSeq(v, 1, Len(v) - 1)), v[Len(v)])

\* `Some(mut cur_damage_unwrapped) => cur_damage_unwrapped.add(damage)`:
\* Damage is Copy, so the pattern binds a copy of the value held in
\* cur_damage; add changes the copy, and cur_damage keeps its old value.
MergedCurAdds(cur, d) == <<add(cur[1], d)>>

MergedCur(cur, d) == cur

\* The base component's own branch of the loop body.
MergeIntoBaseSkips(damage, d) == damage

MergeIntoBase(damage, d) == [damage EXCEPT ![1] = add(@, d)]

\* Does this bonus component go to component 0?
GoesToBaseKindOnly(d, base) == d.kind = base.kind

GoesToBase(d, base) == d.kind = None \/ d.kind = base.kind

\* One iteration of `for damage in bonus_damage`.  st.cur is cur_damage:
\* <<>> for None, <<d>> for Some(d).
CreateStep(st, d) ==
  LET st1 == [st EXCEPT !.min = @ + d.min, !.max = @ + d.max]
  IN IF GoesToBase(d, st.damage[1])
     THEN [st1 EXCEPT !.damage = MergeIntoBase(@, d)]
     ELSE IF st.cur = <<>>
          THEN [st1 EXCEPT !.cur = <<d>>]
          ELSE IF st.cur[1].kind = d.kind
               THEN [st1 EXCEPT !.cur = MergedCur(@, d)]
               ELSE [st1 EXCEPT !.damage = Append(@, st.cur[1]),
                                !.cur = <<d>>]

RECURSIVE CreateLoop(_, _)
CreateLoop(st, bonus) ==
  IF bonus = <<>> THEN st
  ELSE CreateLoop(CreateStep(st, Head(bonus)), Tail(bonus))

\* `if base_damage.kind.is_none() { warn!(..); return; }`
RejectsBaseNever(base_damage) == FALSE

RejectsBase(base_damage) == base_damage.kind = None

\* DamageList::create(&mut self, base_damage, bonus_damage): the new value
\* of self.
create(self, base_damage, bonus_damage) ==
  IF RejectsBase(base_damage) THEN self
  ELSE LET st0 == [damage |-> Append(self.damage, base_damage),
                   cur |-> <<>>,
                   min |-> base_damage.min,
                   max |-> base_damage.max]
           st == CreateLoop(st0, sort_by_key(bonus_damage))
       IN [damage |-> IF st.cur = <<>> THEN st.damage
                      ELSE Append(st.damage, st.cur[1]),
           min |-> st.min,
           max |-> st.max]

(***************************************************************************)
(* DamageList::roll                                                        *)
(***************************************************************************)
\* Armor::amount(kind): the baseline value plus the value for the kind
amount(armor, kind) == armor.base + armor.kinds[kind]

\* `(damage.roll() as f32 * multiplier) as u32`: the product is truncated
\* toward zero.  A multiplier is the exact fraction num / den.
ScaledRounds(rolled, multiplier) ==
  (2 * rolled * multiplier.num + multiplier.den) \div (2 * multiplier.den)

Scaled(rolled, multiplier) == (rolled * multiplier.num) \div multiplier.den

\* The armor kind looked up by roll: the kind of component 0.
ArmorKindOfLast(self) == self.damage[Len(self.damage)].kind

ArmorKind(self) == self.damage[1].kind

\* The `if armor_left >= damage_amount` test of the loop body.
AbsorbedStrict(armor_left, damage_amount) == armor_left > damage_amount

Absorbed(armor_left, damage_amount) == armor_left >= damage_amount

\* The loop of roll from component i on; draws[i] is what damage.roll()
\* returned for component i.
RECURSIVE RollLoop(_, _, _, _, _, _)
RollLoop(self, draws, multiplier, i, armor_left, out) ==
  IF i > Len(self.damage) THEN out
  ELSE LET damage_amount == Scaled(draws[i], multiplier)
           kind == self.damage[i].kind
       IN IF Absorbed(armor_left, damage_amount)
          THEN RollLoop(self, draws, multiplier, i + 1,
                        armor_left - damage_amount, out)
          ELSE RollLoop(self, draws, multiplier, i + 1, 0,
                        Append(out, [kind |-> kind,
                                     amount |-> damage_amount - armor_left]))

\* DamageList::roll(&self, armor, multiplier) for the given draws
roll(self, armor, multiplier, draws) ==
  IF self.damage = <<>> THEN <<>>
  ELSE RollLoop(self, draws, multiplier, 1,
                amount(armor, ArmorKind(self)), <<>>)

\* Damage::roll: gen_range(min, max + 1) draws from [min, max] and panics
\* when the range is empty (min > max).
DrawRange(d) == d.min .. d.max

\* roll ends in a panic when a component cannot be rolled, or has no kind
\* to unwrap.
RollPanics(self) ==
  \E i \in 1..Len(self.damage) :
     \/ DrawRange(self.damage[i]) = {}
     \/ self.damage[i].kind = None

\* Every vector of draws the components of the list can produce.
Draws(self) ==
  {dr \in [1..Len(self.damage) -> 0..self.max] :
      \A i \in 1..Len(self.damage) : dr[i] \in DrawRange(self.damage[i])}

(***************************************************************************)
(* Inputs                                                                  *)
(***************************************************************************)
\* The kinds the inputs are drawn from: three of the nine, with Fire after
\* Slashing and Piercing in the order of the enum.
InputKinds == {"Slashing", "Piercing", "Fire"}

\* Input Damage values: min and max are 0 or MaxDmg, so min < max, min = max
\* and min > max all occur.
Damages ==
  {Damage(mn, mx, k) : mn \in {0, MaxDmg}, mx \in {0, MaxDmg},
                       k \in InputKinds \cup {None}}

BonusLists == UNION {[1..n -> Damages] : n \in 0..MaxBonus}

\* Armor values: a baseline and one kind with an extra point.
Armors ==
  {[base |-> b,
    kinds |-> [k \in DamageKinds |-> IF k = ak THEN 1 ELSE 0]] :
      b \in 0..MaxArmor, ak \in InputKinds}
  \cup {[base |-> b, kinds |-> [k \in DamageKinds |-> 0]] : b \in 0..MaxArmor}

Mult(n, d) == [num |-> n, den |-> d]

\* f32 multipliers whose products with small integers are exact
Multipliers == {Mult(1, 2), Mult(1, 1), Mult(3, 2), Mult(2, 1)}

NoCall ==
  [op |-> "none", base |-> Damage(0, 0, None), bonus |-> <<>>,
   armor |-> [base |-> 0, kinds |-> [k \in DamageKinds |-> 0]],
   multiplier |-> Mult(1, 1), draws |-> <<>>]

(***************************************************************************)
(* actor_state.rs: ActorState                                              *)
(***************************************************************************)
\* attack: `for (_kind, amount) in damage { total += amount; }`
RECURSIVE SumTo(_, _)
SumTo(s, n) == IF n = 0 THEN 0 ELSE s[n] + SumTo(s, n - 1)

SumAll(s) == SumTo(s, Len(s))

Amounts(out) == [i \in 1..Len(out) |-> out[i].amount]

\* The entities of the area, each with one ActorState.
Actors == {"hero", "orc"}

\* enum HitKind, the outcomes of rules.attack_roll
HitKinds == {"Miss", "Graze", "Hit", "Crit"}

\* i32::MAX
I32Max == 2147483647

\* A u32 argument, kept at its width of 32 bits: the value is
\* hi * 2^31 + lo with hi in {0, 1} and lo in 0..i32::MAX.
U32(hi, lo) == [hi |-> hi, lo |-> lo]

\* The u32 of a number that is at most i32::MAX.
FromNat(k) == U32(0, k)

\* u32::MAX = 2^32 - 1
U32Max == U32(1, I32Max)

\* `hp as i32`: the cast of a u32 to i32 wraps values above i32::MAX to
\* n - 2^32
AsI32(n) == IF n.hi = 1 THEN (n.lo - I32Max) - 1 ELSE n.lo

\* ActorState::remove_ap: the new value of self.ap
remove_ap_unclamped(self_ap, n) == self_ap - n

remove_ap(self_ap, n) == IF n > self_ap THEN 0 ELSE self_ap - n

\* ActorState::remove_hp: the new value of self.hp
remove_hp_unclamped(self_hp, n) == self_hp - AsI32(n)

remove_hp(self_hp, n) ==
  IF AsI32(n) > self_hp THEN 0 ELSE self_hp - AsI32(n)

\* ActorState::init_turn: the new value of self.ap
init_turn_carries(self_ap, r) == self_ap + r.base_ap

init_turn(self_ap, r) == r.base_ap

\* ActorState::end_turn: the new value of self.ap
end_turn_keeps(self_ap) == self_ap

end_turn(self_ap) == 0

\* ActorState::can_reach
can_reach_inclusive(self_reach, dist) == dist <= self_reach

can_reach(self_reach, dist) == dist < self_reach

\* ActorState::can_attack
can_attack(self_ap, self_reach, r, dist) ==
  IF self_ap < r.attack_ap THEN FALSE ELSE can_reach(self_reach, dist)

\* ActorState::is_dead
is_dead(self_hp) == self_hp <= 0

\* attack: the `HitKind::Miss => return ("Miss", GRAY)` arm of the match
MissIsRolled(hit_kind) == FALSE

MissReturns(hit_kind) == hit_kind = "Miss"

\* attack: the multiplier the match selects for the other hit kinds
damage_multiplier_swapped(r, hit_kind) ==
  IF hit_kind = "Graze" THEN r.graze_damage_multiplier
  ELSE IF hit_kind = "Hit" THEN r.crit_damage_multiplier
  ELSE r.hit_damage_multiplier

damage_multiplier(r, hit_kind) ==
  IF hit_kind = "Graze" THEN r.graze_damage_multiplier
  ELSE IF hit_kind = "Hit" THEN r.hit_damage_multiplier
  ELSE r.crit_damage_multiplier

\* attack: does the attacker pay the attack's AP for this call?  remove_ap is
\* the first statement of attack, ahead of the roll.
PaysApOnHitOnly(hit_kind) == hit_kind # "Miss"

PaysAp(hit_kind) == TRUE

\* What a listener sees when self.listeners.notify(&self) runs.
Notice(a, a_hp, a_ap) == [actor |-> a, hp |-> a_hp, ap |-> a_ap]

\* The (String, Color) attack returns: "Miss", or format!("{:?}: {} damage").
MissResult == [text |-> <<"Miss">>, color |-> "GRAY"]

DamageResult(hit_kind, total, color) ==
  [text |-> <<hit_kind, ": ", total, " damage">>, color |-> color]

NoResult == [text |-> <<>>, color |-> "NONE"]

\* The value a query returns.
Returned(value) == [value |-> value]

NoACall ==
  [op |-> "none", actor |-> "none", target |-> "none", n |-> 0,
   hit_kind |-> "none", hp_before |-> 0, ap_before |-> 0]

\* The rulesets: base_ap and attack_ap vary, the three multipliers differ.
Rulesets ==
  {[base_ap |-> b, attack_ap |-> c,
    graze_damage_multiplier |-> Mult(1, 2),
    hit_damage_multiplier |-> Mult(1, 1),
    crit_damage_multiplier |-> Mult(3, 2)] : b \in 1..MaxAP, c \in 1..MaxAP}

\* StatList values as compute_stats leaves them: a DamageList built by
\* create, the armor, max_hp and the reach in tiles.
SwordStats ==
  [damage |-> create(DamageList_new, Damage(MaxDmg, MaxDmg + 1, "Slashing"),
                     <<Damage(MaxDmg, MaxDmg, "Fire")>>),
   armor |-> [base |-> 1,
              kinds |-> [k \in DamageKinds |->
                           IF k = "Slashing" THEN 1 ELSE 0]],
   max_hp |-> MaxHP,
   reach |-> 2]

ClawStats ==
  [damage |-> create(DamageList_new, Damage(0, MaxDmg, "Piercing"), <<>>),
   armor |-> [base |-> 0, kinds |-> [k \in DamageKinds |-> 0]],
   max_hp |-> 1,
   reach |-> 1]

StatChoices == {SwordStats, ClawStats}

(***************************************************************************)
(* script_entity.rs: ScriptEntity, ScriptEntitySet                         *)
(***************************************************************************)
\* The slots of the turn manager's entity table.
Slots == {0, 1}

\* Option<usize>
NoIndex == <<>>

Some(i) == <<i>>

\* The indices a handle can hold: none, a slot of the table, or an index the
\* table has never handed out.
HandleIndices == {NoIndex, Some(0), Some(1), Some(2)}

\* ScriptEntity { index }
ScriptEntity(index) == [index |-> index]

ScriptEntities == {ScriptEntity(index) : index \in HandleIndices}

\* A slot of the registry with no entity in it.
EmptySlot ==
  [live |-> FALSE, marked_for_removal |-> FALSE, hp |-> 0, ap |-> 0,
   max_hp |-> 0, faction |-> "none", pos |-> 0, reach |-> 0,
   attack_is_melee |-> FALSE, attack_disabled |-> FALSE, sees |-> {}]

\* TurnManager::entity_checked (the turn manager is outside the sources):
\* Some(entity) for an index that holds a live entity, None for any other.
entity_checked(reg, index) ==
  IF index \in DOMAIN reg /\ reg[index].live THEN Some(index) ELSE NoIndex

\* rlua::Result: Ok(value) or Err(FromLuaConversionError { message })
Ok(value) == [ok |-> TRUE, value |-> value]

Err(message) == [ok |-> FALSE, message |-> message]

\* ScriptEntity::check_not_equal
check_not_equal_never(self, other) == Ok("unit")

check_not_equal(self, other) ==
  IF self.index = other.index
  THEN Err("Parent and target must not match")
  ELSE Ok("unit")

\* ScriptEntity::try_unwrap_index
try_unwrap_index(self) ==
  IF self.index = NoIndex
  THEN Err("ScriptEntity does not have a valid index")
  ELSE Ok(self.index[1])

\* ScriptEntity::try_unwrap: the entity is named by its slot
try_unwrap_one_message(self, reg) ==
  IF self.index = NoIndex
  THEN Err("ScriptEntity does not have a valid index")
  ELSE IF entity_checked(reg, self.index[1]) = NoIndex
       THEN Err("ScriptEntity does not have a valid index")
       ELSE Ok(entity_checked(reg, self.index[1])[1])

try_unwrap(self, reg) ==
  IF self.index = NoIndex
  THEN Err("ScriptEntity does not have a valid index")
  ELSE IF entity_checked(reg, self.index[1]) = NoIndex
       THEN Err("ScriptEntity refers to an entity that no longer exists.")
       ELSE Ok(entity_checked(reg, self.index[1])[1])

\* ScriptEntitySet { parent, selected_point, affected_points, indices,
\* surface }
ScriptEntitySet(parent, indices, selected_point, affected_points, surface) ==
  [parent |-> parent, selected_point |-> selected_point,
   affected_points |-> affected_points, indices |-> indices,
   surface |-> surface]

NoSet == ScriptEntitySet(0, <<>>, NoIndex, <<>>, NoIndex)

NoSCall ==
  [op |-> "none", entity |-> ScriptEntity(NoIndex),
   target |-> ScriptEntity(NoIndex), arg |-> "none"]

SCall(op, entity, target, arg) ==
  [op |-> op, entity |-> entity, target |-> target, arg |-> arg]

NoReturn == Ok("none")

\* An optional argument the script left out.
Omitted == <<>>

\* Option::unwrap_or
unwrap_or(option, default) == IF option = Omitted THEN default ELSE option[1]

\* What a script call leaves behind: the registry, the value returned to the
\* script and the animations, effects and targeters it made.
Outcome(reg, ret, made) == [registry |-> reg, sret |-> ret, queued |-> made]

\* The `?` operator: the call returns the error and nothing else happens.
Fail(reg, error) == Outcome(reg, error, <<>>)

\* is_dead (script method)
script_is_dead(entity, reg) ==
  LET e == try_unwrap(entity, reg)
  IN IF ~e.ok THEN Fail(reg, e)
     ELSE Outcome(reg, Ok(is_dead(reg[e.value].hp)), <<>>)

\* remove (script method)
script_remove_at_once(entity, reg) ==
  LET parent == try_unwrap(entity, reg)
  IN IF ~parent.ok THEN Fail(reg, parent)
     ELSE Outcome([reg EXCEPT ![parent.value] = EmptySlot], Ok("unit"), <<>>)

script_remove(entity, reg) ==
  LET parent == try_unwrap(entity, reg)
  IN IF ~parent.ok THEN Fail(reg, parent)
     ELSE Outcome([reg EXCEPT ![parent.value].marked_for_removal = TRUE],
                  Ok("unit"), <<>>)

\* TurnManager::has_entity (the turn manager is outside the sources): the
\* index holds an entity, marked for removal or not.
has_entity(reg, index) == index \in DOMAIN reg /\ reg[index].live

\* is_valid (script method)
is_valid(entity, reg) ==
  IF entity.index = NoIndex THEN Ok(FALSE)
  ELSE Ok(has_entity(reg, entity.index[1]))

\* remove_ap (script method)
script_remove_ap(entity, n, reg) ==
  LET e == try_unwrap(entity, reg)
  IN IF ~e.ok THEN Fail(reg, e)
     ELSE Outcome([reg EXCEPT ![e.value].ap = remove_ap(@, n)],
                  Ok("unit"), <<>>)

\* ActorState::add_hp (outside the sources): the hit points rise by the
\* amount and never above the maximum.
add_hp(self_hp, max_hp, n) ==
  IF self_hp + n > max_hp THEN max_hp ELSE self_hp + n

\* heal_damage (script method)
heal_damage(entity, n, reg) ==
  LET parent == try_unwrap(entity, reg)
  IN IF ~parent.ok THEN Fail(reg, parent)
     ELSE Outcome([reg EXCEPT ![parent.value].hp =
                                 add_hp(@, reg[parent.value].max_hp, n)],
                  Ok("unit"), <<>>)

\* take_damage (script method); total is the sum of the rolled damage that
\* got through the armor, 0 for an empty roll
take_damage_skips_attacker(entity, attacker, total, reg) ==
  LET parent == try_unwrap(entity, reg)
  IN IF ~parent.ok THEN Fail(reg, parent)
     ELSE IF total = 0 THEN Outcome(reg, Ok("unit"), <<>>)
     ELSE Outcome([reg EXCEPT ![parent.value].hp =
                                 remove_hp(@, FromNat(total))],
                  Ok("unit"), <<>>)

take_damage(entity, attacker, total, reg) ==
  LET parent == try_unwrap(entity, reg)
      attacker_ == try_unwrap(attacker, reg)
  IN IF ~parent.ok THEN Fail(reg, parent)
     ELSE IF ~attacker_.ok THEN Fail(reg, attacker_)
     ELSE IF total = 0 THEN Outcome(reg, Ok("unit"), <<>>)
     ELSE Outcome([reg EXCEPT ![parent.value].hp =
                                 remove_hp(@, FromNat(total))],
                  Ok("unit"), <<>>)

\* ScriptHitKind::new(hit_kind, damage)
ScriptHitKind(hit_kind, damage) == [kind |-> hit_kind, damage |-> damage]

\* ActorState::weapon_attack / ActorState::attack with three arguments
\* (outside the sources): the attack is resolved at once, the target loses
\* the damage that got through, a miss deals none.
resolve_attack(parent, target, hit_kind, total, reg) ==
  IF hit_kind = "Miss" \/ total = 0
  THEN Outcome(reg, Ok(ScriptHitKind(hit_kind, 0)), <<>>)
  ELSE Outcome([reg EXCEPT ![target].hp = remove_hp(@, FromNat(total))],
               Ok(ScriptHitKind(hit_kind, total)), <<>>)

\* weapon_attack (script method): the target is unwrapped first
weapon_attack(entity, target, hit_kind, total, reg) ==
  LET target_ == try_unwrap(target, reg)
      parent == try_unwrap(entity, reg)
  IN IF ~target_.ok THEN Fail(reg, target_)
     ELSE IF ~parent.ok THEN Fail(reg, parent)
     ELSE resolve_attack(parent.value, target_.value, hit_kind, total, reg)

\* special_attack (script method): the target is unwrapped first
special_attack(entity, target, hit_kind, total, reg) ==
  LET target_ == try_unwrap(target, reg)
      parent == try_unwrap(entity, reg)
  IN IF ~target_.ok THEN Fail(reg, target_)
     ELSE IF ~parent.ok THEN Fail(reg, parent)
     ELSE resolve_attack(parent.value, target_.value, hit_kind, total, reg)

\* EntityState::attack(&parent, &target, cb, use_ap) (outside the sources):
\* the animated attack that is scheduled, with its AP flag
AttackAnimation(parent, target, use_ap) ==
  [kind |-> "attack", parent |-> parent, target |-> target,
   use_ap |-> use_ap]

\* anim_weapon_attack (script method)
anim_weapon_attack(entity, target, use_ap, reg) ==
  LET checked == check_not_equal(entity, target)
      parent == try_unwrap(entity, reg)
      target_ == try_unwrap(target, reg)
  IN IF ~checked.ok THEN Fail(reg, checked)
     ELSE IF ~parent.ok THEN Fail(reg, parent)
     ELSE IF ~target_.ok THEN Fail(reg, target_)
     ELSE Outcome(reg, Ok("unit"),
                  <<AttackAnimation(parent.value, target_.value,
                                    unwrap_or(use_ap, FALSE))>>)

\* animation::melee_attack_animation::new, handed to
\* GameState::add_animation; "No ap is deducted for this attack."
SpecialAttackAnimation(parent, target) ==
  [kind |-> "melee_attack_animation", parent |-> parent, target |-> target,
   use_ap |-> FALSE]

\* anim_special_attack (script method)
anim_special_attack(entity, target, reg) ==
  LET checked == check_not_equal(entity, target)
      parent == try_unwrap(entity, reg)
      target_ == try_unwrap(target, reg)
  IN IF ~checked.ok THEN Fail(reg, checked)
     ELSE IF ~parent.ok THEN Fail(reg, parent)
     ELSE IF ~target_.ok THEN Fail(reg, target_)
     ELSE Outcome(reg, Ok("unit"),
                  <<SpecialAttackAnimation(parent.value, target_.value)>>)

\* ScriptEffect::new_entity(index, ..) / TargeterData::new_ability(index, ..)
Builder(kind, index) == [kind |-> kind, parent |-> index]

\* create_effect (script method)
create_effect(entity, reg) ==
  LET index == try_unwrap_index(entity)
  IN IF ~index.ok THEN Fail(reg, index)
     ELSE Outcome(reg, Ok(Builder("ScriptEffect", index.value)),
                  <<Builder("ScriptEffect", index.value)>>)

\* create_targeter (script method)
create_targeter(entity, reg) ==
  LET index == try_unwrap_index(entity)
  IN IF ~index.ok THEN Fail(reg, index)
     ELSE Outcome(reg, Ok(Builder("TargeterData", index.value)),
                  <<Builder("TargeterData", index.value)>>)

\* EntityState::dist_to_entity (outside the sources), in tiles
dist_to_entity(reg, parent, entity) ==
  IF reg[parent].pos > reg[entity].pos
  THEN reg[parent].pos - reg[entity].pos
  ELSE reg[entity].pos - reg[parent].pos

\* AreaState::has_visibility (outside the sources)
has_visibility(reg, parent, entity) == entity \in reg[parent].sees

\* EntityState::is_hostile (outside the sources): the faction relation
is_hostile(reg, parent, entity) == reg[parent].faction # reg[entity].faction

\* The closures with a `friendly` that leaves the parent itself out.
PredicateFriendlyToOthers(f, arg, reg, parent, entity) ==
  CASE f = "without_self" -> parent # entity
    [] f = "visible_within" ->
         IF dist_to_entity(reg, parent, entity) > arg THEN FALSE
         ELSE has_visibility(reg, parent, entity)
    [] f = "visible" -> has_visibility(reg, parent, entity)
    [] f = "hostile" -> is_hostile(reg, parent, entity)
    [] f = "friendly" ->
         ~is_hostile(reg, parent, entity) /\ parent # entity
    [] f = "reachable" ->
         can_reach(reg[parent].reach, dist_to_entity(reg, parent, entity))
    [] f = "attackable" ->
         can_attack(reg[parent].ap, reg[parent].reach, rules,
                    dist_to_entity(reg, parent, entity))
    [] f = "threatening" ->
         IF ~reg[entity].attack_is_melee THEN FALSE
         ELSE IF reg[entity].attack_disabled THEN FALSE
         ELSE can_reach(reg[entity].reach,
                        dist_to_entity(reg, parent, entity))

\* The closures that the filters hand to filter_entities, for a parent and
\* a candidate that both resolved.  `visible` is visible_within(f32::MAX),
\* a distance that no entity exceeds.
Predicate(f, arg, reg, parent, entity) ==
  CASE f = "without_self" -> parent # entity
    [] f = "visible_within" ->
         IF dist_to_entity(reg, parent, entity) > arg THEN FALSE
         ELSE has_visibility(reg, parent, entity)
    [] f = "visible" -> has_visibility(reg, parent, entity)
    [] f = "hostile" -> is_hostile(reg, parent, entity)
    [] f = "friendly" -> ~is_hostile(reg, parent, entity)
    [] f = "reachable" ->
         can_reach(reg[parent].reach, dist_to_entity(reg, parent, entity))
    [] f = "attackable" ->
         can_attack(reg[parent].ap, reg[parent].reach, rules,
                    dist_to_entity(reg, parent, entity))
    [] f = "threatening" ->
         IF ~reg[entity].attack_is_melee THEN FALSE
         ELSE IF reg[entity].attack_disabled THEN FALSE
         ELSE can_reach(reg[entity].reach,
                        dist_to_entity(reg, parent, entity))

\* filter_entities: does the loop push this index?
KeptIfPresent(f, arg, reg, parent, index) == index # NoIndex

Kept(f, arg, reg, parent, index) ==
  IF index = NoIndex THEN FALSE
  ELSE IF entity_checked(reg, index[1]) = NoIndex THEN FALSE
  ELSE Predicate(f, arg, reg, parent, entity_checked(reg, index[1])[1])

\* A loop that puts each kept index in front of the ones kept before it.
RECURSIVE FilterLoopPrepends(_, _, _, _, _, _, _)
FilterLoopPrepends(f, arg, reg, parent, indices, i, pushed) ==
  IF i > Len(indices) THEN pushed
  ELSE FilterLoopPrepends(f, arg, reg, parent, indices, i + 1,
                          IF Kept(f, arg, reg, parent, indices[i])
                          THEN <<indices[i]>> \o pushed
                          ELSE pushed)

\* filter_entities: the loop over set.indices, from entry i on
RECURSIVE FilterLoop(_, _, _, _, _, _, _)
FilterLoop(f, arg, reg, parent, indices, i, pushed) ==
  IF i > Len(indices) THEN pushed
  ELSE FilterLoop(f, arg, reg, parent, indices, i + 1,
                  IF Kept(f, arg, reg, parent, indices[i])
                  THEN Append(pushed, indices[i])
                  ELSE pushed)

\* filter_entities: the set that is returned
FilteredBare(set, indices) ==
  ScriptEntitySet(set.parent, indices, NoIndex, <<>>, NoIndex)

Filtered(set, indices) ==
  ScriptEntitySet(set.parent, indices, set.selected_point,
                  set.affected_points, set.surface)

\* filter_entities
filter_entities(set, f, arg, reg) ==
  LET parent == try_unwrap(ScriptEntity(Some(set.parent)), reg)
  IN IF ~parent.ok THEN parent
     ELSE Ok(Filtered(set, FilterLoop(f, arg, reg, parent.value,
                                      set.indices, 1, <<>>)))

\* sulis_core::util::invalid_data_error (outside the sources): an
\* io::Error of kind InvalidData with the message
invalid_data_error(message) ==
  [ok |-> FALSE, kind |-> "InvalidData", message |-> message]

\* update_entity_refs_on_load: the loop over self.indices.drain(..), from
\* entry i on; the result is the new vector, or the error of the first target
\* that is not in the table
RECURSIVE LoadLoopDropsAbsent(_, _, _, _)
LoadLoopDropsAbsent(entities, indices, i, pushed) ==
  IF i > Len(indices) THEN Ok(pushed)
  ELSE IF indices[i] = NoIndex
       THEN LoadLoopDropsAbsent(entities, indices, i + 1, pushed)
       ELSE IF indices[i][1] \notin DOMAIN entities
            THEN invalid_data_error(<<"Invalid target", indices[i][1]>>)
            ELSE LoadLoopDropsAbsent(entities, indices, i + 1,
                          Append(pushed, Some(entities[indices[i][1]])))

RECURSIVE LoadLoop(_, _, _, _)
LoadLoop(entities, indices, i, pushed) ==
  IF i > Len(indices) THEN Ok(pushed)
  ELSE IF indices[i] = NoIndex
       THEN LoadLoop(entities, indices, i + 1, Append(pushed, NoIndex))
       ELSE IF indices[i][1] \notin DOMAIN entities
            THEN invalid_data_error(<<"Invalid target", indices[i][1]>>)
            ELSE LoadLoop(entities, indices, i + 1,
                          Append(pushed, Some(entities[indices[i][1]])))

\* ScriptEntitySet::update_entity_refs_on_load; entities maps a saved index
\* to the index() of the entity loaded for it.  The call returns from inside
\* the loop for a missing target: self.parent is already replaced and the
\* drained vector is left empty.
update_entity_refs_on_load(self, entities) ==
  IF self.parent \notin DOMAIN entities
  THEN [set |-> self,
        ret |-> invalid_data_error(<<"Invalid parent", self.parent>>)]
  ELSE LET loop == LoadLoop(entities, self.indices, 1, <<>>)
       IN IF loop.ok
          THEN [set |-> [self EXCEPT !.parent = entities[self.parent],
                                     !.indices = loop.value],
                ret |-> Ok("unit")]
          ELSE [set |-> [self EXCEPT !.parent = entities[self.parent],
                                     !.indices = <<>>],
                ret |-> loop]

\* TurnManager::entity_iter (outside the sources): the entities of the
\* registry, by ascending index.
entity_iter(reg) ==
  SelectSeq([k \in 1..Cardinality(DOMAIN reg) |-> k - 1],
            LAMBDA index : reg[index].live)

\* Location::is_in_area_id (outside the sources)
is_in_area_id(reg, entity, area_id) == reg[entity].area = area_id

\* `if parent.borrow().is_hostile(&entity) && entity...stats.hidden`
SkipsHidden(reg, parent, entity) == reg[entity].hidden

SkipsHiddenHostile(reg, parent, entity) ==
  is_hostile(reg, parent, entity) /\ reg[entity].hidden

\* One iteration of `for entity in mgr.borrow().entity_iter()` in targets:
\* three tests that `continue`, then the push.
TargetsStep(indices, reg, parent, area_id, entity) ==
  IF SkipsHiddenHostile(reg, parent, entity) THEN indices
  ELSE IF is_dead(reg[entity].hp) THEN indices
  ELSE IF ~is_in_area_id(reg, entity, area_id) THEN indices
  ELSE Append(indices, Some(entity))

RECURSIVE TargetsLoop(_, _, _, _, _)
TargetsLoop(indices, reg, parent, area_id, entities) ==
  IF entities = <<>> THEN indices
  ELSE TargetsLoop(TargetsStep(indices, reg, parent, area_id, Head(entities)),
                   reg, parent, area_id, Tail(entities))

\* targets (method of the entity)
targets(entity, reg) ==
  LET parent == try_unwrap(entity, reg)
  IN IF ~parent.ok THEN parent
     ELSE Ok(ScriptEntitySet(
               parent.value,
               TargetsLoop(<<>>, reg, parent.value, reg[parent.value].area,
                           entity_iter(reg)),
               NoIndex, <<>>, NoIndex))

\* is_empty (method of the set)
is_empty(set) == Ok(set.indices = <<>>)

\* first (method of the set): `for index in set.indices.iter()` returns at
\* the first entry that is Some(index); the error follows the loop.
RECURSIVE FirstLoop(_)
FirstLoop(indices) ==
  IF indices = <<>> THEN Err("EntitySet is empty")
  ELSE IF Head(indices) # NoIndex THEN Ok(ScriptEntity(Head(indices)))
       ELSE FirstLoop(Tail(indices))

first_of(set) == FirstLoop(set.indices)

\* The turn manager's sweep between two update ticks (outside the sources):
\* the entities marked for removal leave the table.
sweep(reg) ==
  [i \in DOMAIN reg |-> IF reg[i].marked_for_removal THEN EmptySlot
                        ELSE reg[i]]

(***************************************************************************)
(* actor_state.rs: ActorState::new, equip, unequip, compute_stats          *)
(***************************************************************************)
\* Option::None of the optional fields of an item, a race and a call
Absent == <<>>

\* item::Slot, in the order in which the inventory iterates the slots
EquipSlot == <<"HeldMain", "HeldOff", "Torso">>

EquipSlots == {EquipSlot[i] : i \in 1..Len(EquipSlot)}

\* The bonuses of a race, a class level or an item: an optional base damage
\* and two additive values.
BonusList(base_damage, hit_points, armor) ==
  [base_damage |-> base_damage, hit_points |-> hit_points, armor |-> armor]

Equippable(bonuses) == [bonuses |-> bonuses]

\* An item with the slot it is worn in and its optional equippable data.
Item(slot, equippable) == [slot |-> slot, equippable |-> equippable]

\* actor.items: a sword, a dagger and a shield for the off hand, and a
\* shirt that has no equippable data.  The item of index i is ActorItems[i+1].
ActorItems ==
  <<Item("HeldMain",
         Some(Equippable(BonusList(Some(Damage(0, MaxDmg, "Slashing")), 0, 0)))),
    Item("HeldOff",
         Some(Equippable(BonusList(Some(Damage(MaxDmg, MaxDmg, "Piercing")), 0, 0)))),
    Item("HeldOff", Some(Equippable(BonusList(Absent, 1, 1)))),
    Item("Torso", Absent)>>

\* The races: one with an innate base damage, one without.
Races ==
  {[base_stats |-> BonusList(Some(Damage(0, MaxDmg, "Crushing")), 1, 0)],
   [base_stats |-> BonusList(Absent, 1, 1)]}

Fighter == [bonuses_per_level |-> BonusList(Absent, 1, 0)]

\* actor.levels: no class, or one class at a level up to MaxLevel
LevelLists == {<<>>} \cup {<<<<Fighter, level>>>> : level \in 1..MaxLevel}

\* actor.to_equip: nothing, one item, two items of one slot, the item
\* without equippable data, and an index past the end of the items.
ToEquipLists == {<<>>, <<0>>, <<1, 2>>, <<3>>, <<Len(ActorItems)>>}

\* struct Actor: the immutable template of an ActorState
ActorTemplates ==
  {[race |-> race, levels |-> levels, items |-> ActorItems,
    to_equip |-> to_equip] :
      race \in Races, levels \in LevelLists, to_equip \in ToEquipLists}

\* Inventory::new: the items of the actor, nothing equipped
Inventory_new(actor) ==
  [items |-> actor.items, equipped |-> [slot \in EquipSlots |-> Absent]]

\* Inventory::equip(index): the item goes into its slot and replaces what
\* the slot held; an index past the end of the items is refused.
Inventory_equip(inventory, index) ==
  IF index >= Len(inventory.items)
  THEN [inventory |-> inventory, result |-> FALSE]
  ELSE [inventory |->
          [inventory EXCEPT
             !.equipped[inventory.items[index + 1].slot] = Some(index)],
        result |-> TRUE]

\* Inventory::unequip(slot): refused when the slot holds nothing
Inventory_unequip(inventory, slot) ==
  IF inventory.equipped[slot] = Absent
  THEN [inventory |-> inventory, result |-> FALSE]
  ELSE [inventory |-> [inventory EXCEPT !.equipped[slot] = Absent],
        result |-> TRUE]

\* Inventory::equipped_iter: the equipped item states, in slot order
equipped_iter(inventory) ==
  LET held == SelectSeq(EquipSlot,
                        LAMBDA slot : inventory.equipped[slot] # Absent)
  IN [j \in 1..Len(held) |->
        [item |-> inventory.items[inventory.equipped[held[j]][1] + 1]]]

\* StatList::default()
StatList_default ==
  [initiative |-> 0, hit_points |-> 0, armor |-> 0, damage |-> DamageList_new]

\* StatList::add_multiple(bonuses, times)
add_multiple(stats_, bonuses, times) ==
  [stats_ EXCEPT !.hit_points = @ + bonuses.hit_points * times,
                 !.armor = @ + bonuses.armor * times]

\* StatList::add(bonuses)
StatList_add(stats_, bonuses) == add_multiple(stats_, bonuses, 1)

\* Rules::compute_damage_from(damage_list): the candidates are merged into
\* one Damage of the kind of the first; no candidate gives no damage.
compute_damage_from(damage_list) ==
  IF damage_list = <<>> THEN Damage(0, 0, None)
  ELSE Damage(SumAll([i \in 1..Len(damage_list) |-> damage_list[i].min]),
              SumAll([i \in 1..Len(damage_list) |-> damage_list[i].max]),
              damage_list[1].kind)

\* StatList::finalize(base_damage): the damage profile is built
finalize(stats_, base_damage) ==
  [stats_ EXCEPT !.damage = create(DamageList_new, base_damage, <<>>)]

\* The rules compute_stats reads
StatRulesets == {[base_initiative |-> i] : i \in 1..MaxLevel}

\* ActorState::new: the to_equip items are equipped in the inventory; the
\* stats are StatList::default().
RECURSIVE EquipAll(_, _)
EquipAll(inventory, to_equip) ==
  IF to_equip = <<>> THEN inventory
  ELSE EquipAll(Inventory_equip(inventory, Head(to_equip)).inventory,
                Tail(to_equip))

ActorState_new(actor) ==
  [actor |-> actor,
   inventory |-> EquipAll(Inventory_new(actor), actor.to_equip),
   stats |-> StatList_default]

\* `self.stats = StatList::default();`
ResetKeeps(stats_) == stats_

Reset(stats_) == StatList_default

\* `for &(ref class, level) in self.actor.levels.iter()`
RECURSIVE LevelLoop(_, _)
LevelLoop(stats_, levels) ==
  IF levels = <<>> THEN stats_
  ELSE LevelLoop(add_multiple(stats_, Head(levels)[1].bonuses_per_level,
                              Head(levels)[2]),
                 Tail(levels))

\* One iteration of `for ref item_state in self.inventory.equipped_iter()`:
\* an item with no equippable data is skipped by `continue`.
ItemStep(st, item_state) ==
  IF item_state.item.equippable = Absent THEN st
  ELSE LET equippable == item_state.item.equippable[1]
       IN [stats |-> StatList_add(st.stats, equippable.bonuses),
           damage_list |->
             IF equippable.bonuses.base_damage # Absent
             THEN Append(st.damage_list, equippable.bonuses.base_damage[1])
             ELSE st.damage_list]

RECURSIVE ItemLoop(_, _)
ItemLoop(st, items) ==
  IF items = <<>> THEN st
  ELSE ItemLoop(ItemStep(st, Head(items)), Tail(items))

\* `if damage_list.is_empty() { if let Some(damage) = race base_damage ..`:
\* the innate damage of the race is a candidate when the items gave none.
RaceDamageAlways(damage_list, race) ==
  IF race.base_stats.base_damage # Absent
  THEN Append(damage_list, race.base_stats.base_damage[1])
  ELSE damage_list

RaceDamage(damage_list, race) ==
  IF damage_list = <<>>
  THEN IF race.base_stats.base_damage # Absent
       THEN Append(damage_list, race.base_stats.base_damage[1])
       ELSE damage_list
  ELSE damage_list

\* The StatLists the listeners are shown by compute_stats: one call of
\* `self.listeners.notify(&self)`, the last statement.
NotifiesOnReset(reset, final) == <<reset, final>>

Notifies(reset, final) == <<final>>

\* ActorState::compute_stats: the new ActorState, the candidate list handed
\* to compute_damage_from and the notifications made.
compute_stats(self, rules_) ==
  LET reset == Reset(self.stats)
      based == [reset EXCEPT !.initiative = rules_.base_initiative]
      raced == StatList_add(based, self.actor.race.base_stats)
      levelled == LevelLoop(raced, self.actor.levels)
      st == ItemLoop([stats |-> levelled, damage_list |-> <<>>],
                     equipped_iter(self.inventory))
      damage_list == RaceDamage(st.damage_list, self.actor.race)
      base_damage == compute_damage_from(damage_list)
      final == finalize(st.stats, base_damage)
  IN [self |-> [self EXCEPT !.stats = final],
      damage_list |-> damage_list,
      notices |-> Notifies(reset, final)]

\* equip and unequip, with and without the recomputation of the stats
recompute_skipped(self, rules_) ==
  [self |-> self, damage_list |-> <<>>, notices |-> <<>>]

recompute(self, rules_) == compute_stats(self, rules_)

\* ActorState::equip(index)
equip(self, index, rules_) ==
  LET done == Inventory_equip(self.inventory, index)
  IN [computed |-> recompute([self EXCEPT !.inventory = done.inventory],
                             rules_),
      result |-> done.result]

\* ActorState::unequip(slot)
unequip(self, slot, rules_) ==
  LET done == Inventory_unequip(self.inventory, slot)
  IN [computed |-> recompute([self EXCEPT !.inventory = done.inventory],
                             rules_),
      result |-> done.result]

\* No ActorState has been constructed.
NoActorState ==
  [actor |-> [race |-> [base_stats |-> BonusList(Absent, 0, 0)],
              levels |-> <<>>, items |-> <<>>, to_equip |-> <<>>],
   inventory |-> [items |-> <<>>,
                  equipped |-> [slot \in EquipSlots |-> Absent]],
   stats |-> StatList_default]

NoCCall ==
  [op |-> "none", arg |-> "none", result |-> "none", damage_list |-> <<>>]

CIdle ==
  /\ state = NoActorState
  /\ ccall = NoCCall
  /\ heard = <<>>

(***************************************************************************)
(* SpecActor: two actors                                                   *)
(***************************************************************************)
\* The state of the actors before any ActorState exists.
AIdle ==
  /\ rules = CHOOSE r \in Rulesets : r.base_ap = 1 /\ r.attack_ap = 1
  /\ stats = [a \in Actors |-> ClawStats]
  /\ hp = [a \in Actors |-> 0]
  /\ ap = [a \in Actors |-> 0]
  /\ acall = NoACall
  /\ result = NoResult
  /\ notified = <<>>
  /\ CIdle

\* No script is running and no entity is registered.
SIdle ==
  /\ registry = [i \in Slots |-> EmptySlot]
  /\ eset = NoSet
  /\ scall = NoSCall
  /\ sret = NoReturn
  /\ queued = <<>>

\* No DamageList call is in progress.
NoRoll ==
  /\ list' = DamageList_new
  /\ call' = NoCall
  /\ output' = <<>>

\* ActorState::new for every actor: hp and ap start at 0; the ruleset is
\* loaded and the stats are computed.
AInit ==
  /\ rules \in Rulesets
  /\ stats \in [Actors -> StatChoices]
  /\ hp = [a \in Actors |-> 0]
  /\ ap = [a \in Actors |-> 0]
  /\ acall = NoACall
  /\ result = NoResult
  /\ notified = <<>>
  /\ list = DamageList_new
  /\ call = NoCall
  /\ output = <<>>
  /\ panicked = FALSE
  /\ SIdle
  /\ CIdle

ACall(op, a, t, n, hit_kind) ==
  [op |-> op, actor |-> a, target |-> t, n |-> n, hit_kind |-> hit_kind,
   hp_before |-> IF t \in Actors THEN hp[t] ELSE hp[a],
   ap_before |-> ap[a]]

\* a.init()
Init_(a) ==
  /\ ~panicked
  /\ hp' = [hp EXCEPT ![a] = stats[a].max_hp]
  /\ acall' = ACall("init", a, "none", 0, "none")
  /\ notified' = <<>>
  /\ result' = NoResult
  /\ NoRoll
  /\ UNCHANGED <<rules, stats, ap, panicked, svars, cvars>>

\* a.init_turn()
InitTurn(a) ==
  /\ ~panicked
  /\ ap' = [ap EXCEPT ![a] = init_turn(@, rules)]
  /\ acall' = ACall("init_turn", a, "none", 0, "none")
  /\ notified' = <<Notice(a, hp[a], ap'[a])>>
  /\ result' = NoResult
  /\ NoRoll
  /\ UNCHANGED <<rules, stats, hp, panicked, svars, cvars>>

\* a.end_turn()
EndTurn(a) ==
  /\ ~panicked
  /\ ap' = [ap EXCEPT ![a] = end_turn(@)]
  /\ acall' = ACall("end_turn", a, "none", 0, "none")
  /\ notified' = <<>>
  /\ result' = NoResult
  /\ NoRoll
  /\ UNCHANGED <<rules, stats, hp, panicked, svars, cvars>>

\* a.remove_ap(n)
RemoveAp(a, n) ==
  /\ ~panicked
  /\ ap' = [ap EXCEPT ![a] = remove_ap(@, n)]
  /\ acall' = ACall("remove_ap", a, "none", n, "none")
  /\ notified' = <<Notice(a, hp[a], ap'[a])>>
  /\ result' = NoResult
  /\ NoRoll
  /\ UNCHANGED <<rules, stats, hp, panicked, svars, cvars>>

\* The amounts remove_hp is called with: the small ones, and u32::MAX for
\* the amounts above i32::MAX.
HpAmounts == {FromNat(k) : k \in 0..(MaxHP + 1)} \cup {U32Max}

\* a.remove_hp(n).  An amount above i32::MAX is taken while hp is below
\* max_hp, which keeps hp within 0..max_hp.
RemoveHp(a, n) ==
  /\ ~panicked
  /\ n.hi = 1 => hp[a] < stats[a].max_hp
  /\ hp' = [hp EXCEPT ![a] = remove_hp(@, n)]
  /\ acall' = ACall("remove_hp", a, "none", n, "none")
  /\ notified' = <<Notice(a, hp'[a], ap[a])>>
  /\ result' = NoResult
  /\ NoRoll
  /\ UNCHANGED <<rules, stats, ap, panicked, svars, cvars>>

\* a.attack(t) for a target that is another entity
Attack(a, t) ==
  /\ ~panicked
  /\ a # t
  /\ \E hit_kind \in HitKinds :
       LET ap1 == IF PaysAp(hit_kind) THEN remove_ap(ap[a], rules.attack_ap)
                  ELSE ap[a]
           first == IF PaysAp(hit_kind) THEN <<Notice(a, hp[a], ap1)>>
                    ELSE <<>>
       IN /\ ap' = [ap EXCEPT ![a] = ap1]
          /\ acall' = ACall("attack", a, t, 0, hit_kind)
          /\ IF MissReturns(hit_kind)
             THEN /\ result' = MissResult
                  /\ notified' = first
                  /\ NoRoll
                  /\ UNCHANGED hp
             ELSE /\ ~RollPanics(stats[a].damage)
                  /\ \E draws \in Draws(stats[a].damage) :
                       LET multiplier == damage_multiplier(rules, hit_kind)
                           damage == roll(stats[a].damage, stats[t].armor,
                                          multiplier, draws)
                           total == SumAll(Amounts(damage))
                       IN /\ list' = stats[a].damage
                          /\ call' = [NoCall EXCEPT
                                        !.op = "roll",
                                        !.armor = stats[t].armor,
                                        !.multiplier = multiplier,
                                        !.draws = draws]
                          /\ output' = damage
                          /\ IF damage = <<>>
                             THEN /\ result' = DamageResult(hit_kind, 0, "GRAY")
                                  /\ notified' = first
                                  /\ UNCHANGED hp
                             ELSE /\ hp' = [hp EXCEPT
                                              ![t] = remove_hp(@, FromNat(total))]
                                  /\ result' =
                                       DamageResult(hit_kind, total, "RED")
                                  /\ notified' =
                                       Append(first,
                                              Notice(t, hp'[t], ap'[t]))
  /\ UNCHANGED <<rules, stats, panicked, svars, cvars>>

\* a.can_attack(t, dist) for another entity t: takes &self
CanAttack(a, t, dist) ==
  /\ ~panicked
  /\ a # t
  /\ acall' = ACall("can_attack", a, t, dist, "none")
  /\ result' = Returned(can_attack(ap[a], stats[a].reach, rules, dist))
  /\ notified' = <<>>
  /\ NoRoll
  /\ UNCHANGED <<rules, stats, hp, ap, panicked, svars, cvars>>

\* a.attack(a): self is borrowed mutably from the target's RefCell, so
\* target.borrow() panics, after remove_ap has run.
AttackSelf(a) ==
  /\ ~panicked
  /\ ap' = [ap EXCEPT ![a] = remove_ap(@, rules.attack_ap)]
  /\ acall' = ACall("attack", a, a, 0, "none")
  /\ notified' = <<Notice(a, hp[a], ap'[a])>>
  /\ result' = NoResult
  /\ NoRoll
  /\ panicked' = TRUE
  /\ UNCHANGED <<rules, stats, hp, svars, cvars>>

ANext ==
  \/ \E a \in Actors : Init_(a)
  \/ \E a \in Actors : InitTurn(a)
  \/ \E a \in Actors : EndTurn(a)
  \/ \E a \in Actors, n \in 0..(MaxAP + 1) : RemoveAp(a, n)
  \/ \E a \in Actors, n \in HpAmounts : RemoveHp(a, n)
  \/ \E a \in Actors, t \in Actors : Attack(a, t)
  \/ \E a \in Actors : AttackSelf(a)

SpecActor == AInit /\ [][ANext]_vars

(***************************************************************************)
(* SpecCanAttack: the AP of two actors and the can_attack query            *)
(***************************************************************************)
QNext ==
  \/ \E a \in Actors : InitTurn(a)
  \/ \E a \in Actors : EndTurn(a)
  \/ \E a \in Actors, n \in 0..(MaxAP + 1) : RemoveAp(a, n)
  \/ \E a \in Actors, t \in Actors, dist \in 0..MaxDist : CanAttack(a, t, dist)

SpecCanAttack == AInit /\ [][QNext]_vars

(***************************************************************************)
(* SpecDamage: one DamageList                                              *)
(***************************************************************************)
DInit ==
  /\ list = DamageList_new
  /\ call = NoCall
  /\ output = <<>>
  /\ panicked = FALSE
  /\ AIdle
  /\ SIdle

\* DamageList::new(): a fresh, empty list replaces the current one
New ==
  /\ ~panicked
  /\ call.op \in {"create", "roll"}
  /\ list' = DamageList_new
  /\ call' = [NoCall EXCEPT !.op = "new"]
  /\ output' = <<>>
  /\ UNCHANGED <<panicked, avars, svars, cvars>>

\* list.create(base, bonus), the first call made on a list that was just
\* constructed
Create ==
  /\ ~panicked
  /\ call.op \in {"none", "new"}
  /\ \E base \in Damages, bonus \in BonusLists :
        /\ list' = create(list, base, bonus)
        /\ call' = [NoCall EXCEPT !.op = "create", !.base = base,
                                  !.bonus = bonus]
  /\ output' = <<>>
  /\ UNCHANGED <<panicked, avars, svars, cvars>>

\* list.roll(armor, multiplier) returning normally.  roll takes &self and
\* leaves the list as it is, so every roll is taken from the state in which
\* its list was built: a roll after a roll would start from the same list.
Roll ==
  /\ ~panicked
  /\ call.op # "roll"
  /\ ~RollPanics(list)
  /\ \E armor \in Armors, multiplier \in Multipliers, draws \in Draws(list) :
        /\ output' = roll(list, armor, multiplier, draws)
        /\ call' = [NoCall EXCEPT !.op = "roll", !.armor = armor,
                                  !.multiplier = multiplier,
                                  !.draws = draws]
  /\ UNCHANGED <<list, panicked, avars, svars, cvars>>

\* list.roll(armor, multiplier) ending in a panic
RollPanic ==
  /\ ~panicked
  /\ call.op # "roll"
  /\ RollPanics(list)
  /\ panicked' = TRUE
  /\ call' = [NoCall EXCEPT !.op = "roll"]
  /\ output' = <<>>
  /\ UNCHANGED <<list, avars, svars, cvars>>

DNext == New \/ Create \/ Roll \/ RollPanic

SpecDamage == DInit /\ [][DNext]_vars

(***************************************************************************)
(* SpecScript: script calls on ScriptEntity handles                        *)
(***************************************************************************)
\* The entity the area places in each slot.
PlacedEntity(i) ==
  [live |-> TRUE, marked_for_removal |-> FALSE, hp |-> 1, ap |-> 1,
   max_hp |-> 1, faction |-> IF i = 0 THEN "Player" ELSE "Hostile",
   pos |-> i, reach |-> 2 - i, attack_is_melee |-> TRUE,
   attack_disabled |-> FALSE, sees |-> Slots]

\* The (hit kind, damage) pairs an attack can resolve to.
Resolutions == {<<"Miss", 0>>, <<"Hit", 0>>, <<"Hit", MaxDmg>>}

\* Every slot holds its entity or is empty; no script has run.
SInit ==
  /\ registry \in [Slots -> {EmptySlot} \cup {PlacedEntity(i) : i \in Slots}]
  /\ \A i \in Slots : registry[i] \in {EmptySlot, PlacedEntity(i)}
  /\ eset = NoSet
  /\ scall = NoSCall
  /\ sret = NoReturn
  /\ queued = <<>>
  /\ list = DamageList_new
  /\ call = NoCall
  /\ output = <<>>
  /\ panicked = FALSE
  /\ AIdle

\* The script call `call` ends with the outcome `out`.
Returns(call_, out) ==
  /\ ~panicked
  /\ scall' = call_
  /\ registry' = out.registry
  /\ sret' = out.sret
  /\ queued' = out.queued
  /\ UNCHANGED <<eset, dvars, avars, cvars>>

TryUnwrap(entity) ==
  Returns(SCall("try_unwrap", entity, ScriptEntity(NoIndex), "none"),
          Outcome(registry, try_unwrap(entity, registry), <<>>))

IsDead(entity) ==
  Returns(SCall("is_dead", entity, ScriptEntity(NoIndex), "none"),
          script_is_dead(entity, registry))

IsValid(entity) ==
  Returns(SCall("is_valid", entity, ScriptEntity(NoIndex), "none"),
          Outcome(registry, is_valid(entity, registry), <<>>))

Remove(entity) ==
  Returns(SCall("remove", entity, ScriptEntity(NoIndex), "none"),
          script_remove(entity, registry))

ScriptRemoveAp(entity, n) ==
  Returns(SCall("remove_ap", entity, ScriptEntity(NoIndex), n),
          script_remove_ap(entity, n, registry))

HealDamage(entity, n) ==
  Returns(SCall("heal_damage", entity, ScriptEntity(NoIndex), n),
          heal_damage(entity, n, registry))

TakeDamage(entity, attacker, total) ==
  Returns(SCall("take_damage", entity, attacker, total),
          take_damage(entity, attacker, total, registry))

\* weapon_attack of an entity on another one
WeaponAttack(entity, target, r) ==
  /\ ~(try_unwrap(entity, registry).ok /\ entity = target)
  /\ Returns(SCall("weapon_attack", entity, target, r),
             weapon_attack(entity, target, r[1], r[2], registry))

SpecialAttack(entity, target, r) ==
  /\ ~(try_unwrap(entity, registry).ok /\ entity = target)
  /\ Returns(SCall("special_attack", entity, target, r),
             special_attack(entity, target, r[1], r[2], registry))

\* weapon_attack or special_attack of an entity on itself: both handles
\* resolve to the same RefCell, and the attack either is resolved against
\* the attacker or ends in a panic on a conflicting borrow.
AttackItself(op, entity, r) ==
  /\ try_unwrap(entity, registry).ok
  /\ \/ Returns(SCall(op, entity, entity, r),
                weapon_attack(entity, entity, r[1], r[2], registry))
     \/ /\ ~panicked
        /\ panicked' = TRUE
        /\ scall' = SCall(op, entity, entity, r)
        /\ sret' = NoReturn
        /\ queued' = <<>>
        /\ UNCHANGED <<registry, eset, list, call, output, avars, cvars>>

AnimWeaponAttack(entity, target, use_ap) ==
  Returns(SCall("anim_weapon_attack", entity, target, use_ap),
          anim_weapon_attack(entity, target, use_ap, registry))

AnimSpecialAttack(entity, target) ==
  Returns(SCall("anim_special_attack", entity, target, "none"),
          anim_special_attack(entity, target, registry))

CreateEffect(entity) ==
  Returns(SCall("create_effect", entity, ScriptEntity(NoIndex), "none"),
          create_effect(entity, registry))

CreateTargeter(entity) ==
  Returns(SCall("create_targeter", entity, ScriptEntity(NoIndex), "none"),
          create_targeter(entity, registry))

\* The sweep between two ticks, when some entity is marked.
Sweep ==
  /\ \E i \in Slots : registry[i].marked_for_removal
  /\ Returns(SCall("sweep", ScriptEntity(NoIndex), ScriptEntity(NoIndex),
                   "none"),
             Outcome(sweep(registry), NoReturn, <<>>))

SNext ==
  \/ \E entity \in ScriptEntities : TryUnwrap(entity)
  \/ \E entity \in ScriptEntities : IsDead(entity)
  \/ \E entity \in ScriptEntities : IsValid(entity)
  \/ \E entity \in ScriptEntities : Remove(entity)
  \/ \E entity \in ScriptEntities, n \in 0..MaxAP : ScriptRemoveAp(entity, n)
  \/ \E entity \in ScriptEntities, n \in 0..MaxDmg : HealDamage(entity, n)
  \/ \E entity \in ScriptEntities, attacker \in ScriptEntities,
        total \in 0..MaxDmg : TakeDamage(entity, attacker, total)
  \/ \E entity \in ScriptEntities, target \in ScriptEntities,
        r \in Resolutions : WeaponAttack(entity, target, r)
  \/ \E entity \in ScriptEntities, target \in ScriptEntities,
        r \in Resolutions : SpecialAttack(entity, target, r)
  \/ \E op \in {"weapon_attack", "special_attack"},
        entity \in ScriptEntities, r \in Resolutions :
          AttackItself(op, entity, r)
  \/ \E entity \in ScriptEntities, target \in ScriptEntities,
        use_ap \in {Omitted, Some(TRUE), Some(FALSE)} :
          AnimWeaponAttack(entity, target, use_ap)
  \/ \E entity \in ScriptEntities, target \in ScriptEntities :
        AnimSpecialAttack(entity, target)
  \/ \E entity \in ScriptEntities : CreateEffect(entity)
  \/ \E entity \in ScriptEntities : CreateTargeter(entity)
  \/ Sweep

SpecScript == SInit /\ [][SNext]_vars

(***************************************************************************)
(* SpecSet: the filters and the reload of a ScriptEntitySet                *)
(***************************************************************************)
\* The entities an area can hold in slot 0: a player character with or
\* without the AP for an attack.
SlotZero ==
  {[PlacedEntity(0) EXCEPT !.ap = a] : a \in {0, 1}}

\* The entities an area can hold in slot 1: a hostile next to slot 0, a
\* hostile out of reach and out of sight of slot 0, a party member whose
\* attack is disabled.
SlotOne ==
  {[PlacedEntity(1) EXCEPT !.reach = 2, !.sees = {0}],
   [PlacedEntity(1) EXCEPT !.pos = 2, !.sees = {1}],
   [PlacedEntity(1) EXCEPT !.faction = "Player", !.attack_disabled = TRUE]}

Worlds ==
  {[i \in Slots |-> IF i = 0 THEN e0 ELSE e1] :
     e0 \in {EmptySlot} \cup
             {[e EXCEPT !.sees = s] : e \in SlotZero, s \in {{0}, {0, 1}}},
     e1 \in {EmptySlot} \cup SlotOne}

RECURSIVE SeqsUpTo(_, _)
SeqsUpTo(S, n) ==
  IF n = 0 THEN {<<>>}
  ELSE SeqsUpTo(S, n - 1) \cup
       {Append(q, x) : q \in {r \in SeqsUpTo(S, n - 1) : Len(r) = n - 1},
                       x \in S}

\* The sets a script can hold: any parent index, any list of targets (absent,
\* live, stale and repeated entries), with or without a selected point,
\* affected points and a surface.
Sets ==
  {ScriptEntitySet(parent, indices, extra[1], extra[2], extra[3]) :
     parent \in {0, 1, 2},
     indices \in SeqsUpTo(HandleIndices, MaxTargets),
     extra \in {<<NoIndex, <<>>, NoIndex>>,
                <<Some(<<1, 2>>), <<<<1, 2>>>>, Some(0)>>}}

\* The filters with their arguments.
Filters ==
  {<<f, "none">> : f \in {"without_self", "visible", "hostile", "friendly",
                           "reachable", "attackable", "threatening"}}
    \cup {<<"visible_within", dist>> : dist \in 0..MaxDist}

\* The tables handed to update_entity_refs_on_load.
RemapTables ==
  {<<>>,
   [i \in {0} |-> 1],
   [i \in {0, 1} |-> 2 - i],
   [i \in {0, 1, 2} |-> i],
   [i \in {0, 1, 2} |-> (i + 1) % 3]}

SetInit ==
  /\ registry \in Worlds
  /\ eset \in Sets
  /\ scall = NoSCall
  /\ sret = NoReturn
  /\ queued = <<>>
  /\ list = DamageList_new
  /\ call = NoCall
  /\ output = <<>>
  /\ panicked = FALSE
  /\ AIdle

\* eset.<filter>(arg): takes &set
Filter(f) ==
  /\ ~panicked
  /\ scall' = SCall(f[1], ScriptEntity(NoIndex), ScriptEntity(NoIndex), f[2])
  /\ sret' = filter_entities(eset, f[1], f[2], registry)
  /\ queued' = <<>>
  /\ UNCHANGED <<registry, eset, dvars, avars, cvars>>

\* eset.update_entity_refs_on_load(entities): takes &mut self
UpdateEntityRefsOnLoad(entities) ==
  /\ ~panicked
  /\ scall' = SCall("update_entity_refs_on_load", ScriptEntity(NoIndex),
                    ScriptEntity(NoIndex), entities)
  /\ eset' = update_entity_refs_on_load(eset, entities).set
  /\ sret' = update_entity_refs_on_load(eset, entities).ret
  /\ queued' = <<>>
  /\ UNCHANGED <<registry, dvars, avars, cvars>>

\* eset.is_empty() and eset.first(): both take &set
Asks(op, ret) ==
  /\ ~panicked
  /\ scall' = SCall(op, ScriptEntity(NoIndex), ScriptEntity(NoIndex), "none")
  /\ sret' = ret
  /\ queued' = <<>>
  /\ UNCHANGED <<registry, eset, dvars, avars, cvars>>

IsEmpty == Asks("is_empty", is_empty(eset))

First == Asks("first", first_of(eset))

SetNext ==
  \/ \E f \in Filters : Filter(f)
  \/ IsEmpty
  \/ First
  \/ \E entities \in RemapTables : UpdateEntityRefsOnLoad(entities)

SpecSet == SetInit /\ [][SetNext]_vars

(***************************************************************************)
(* SpecTargets: the target set of an entity                                *)
(***************************************************************************)
\* The slots of the registry of the areas.
AreaSlots == {0, 1, 2}

\* An entity of the registry with its faction, its hp, the area it is in
\* and whether it is hidden.
AreaEntity(i, faction, hp_, area, hidden) ==
  [PlacedEntity(i) EXCEPT !.faction = faction, !.hp = hp_]
    @@ [area |-> area, hidden |-> hidden]

\* Slot 0 holds a player character, alive or dead; the other slots hold a
\* hostile (in sight or hidden, alive or dead, in the same area or in
\* another one) or a hidden party member.
AreaChoices(i) ==
  IF i = 0
  THEN {EmptySlot, AreaEntity(0, "Player", 1, "cave", FALSE),
        AreaEntity(0, "Player", 0, "cave", FALSE)}
  ELSE {EmptySlot,
        AreaEntity(i, "Hostile", 1, "cave", FALSE),
        AreaEntity(i, "Hostile", 1, "cave", TRUE),
        AreaEntity(i, "Hostile", 0, "cave", FALSE),
        AreaEntity(i, "Hostile", 1, "town", FALSE),
        AreaEntity(i, "Player", 1, "cave", TRUE)}

AreaWorlds ==
  {reg \in [AreaSlots -> UNION {AreaChoices(i) : i \in AreaSlots}] :
      \A i \in AreaSlots : reg[i] \in AreaChoices(i)}

TargetsInit ==
  /\ registry \in AreaWorlds
  /\ eset = NoSet
  /\ scall = NoSCall
  /\ sret = NoReturn
  /\ queued = <<>>
  /\ list = DamageList_new
  /\ call = NoCall
  /\ output = <<>>
  /\ panicked = FALSE
  /\ AIdle

\* entity.targets()
Targets(entity) ==
  Returns(SCall("targets", entity, ScriptEntity(NoIndex), "none"),
          Outcome(registry, targets(entity, registry), <<>>))

TargetsNext == \E entity \in ScriptEntities : Targets(entity)

SpecTargets == TargetsInit /\ [][TargetsNext]_vars

(***************************************************************************)
(* SpecRecreate: create called again and again on one DamageList           *)
(***************************************************************************)
\* Base components of every kind and of no kind.
RecreateBases == {Damage(0, MaxDmg, k) : k \in InputKinds \cup {None}}

\* Bonus vectors of at most one component: no two bonus components of one
\* kind meet in a call.
RecreateBonuses == {<<>>} \cup {<<d>> : d \in RecreateBases}

\* list.create(base, bonus) on the list as the calls before left it
CreateOnSame ==
  /\ ~panicked
  /\ Len(list.damage) < MaxComponents
  /\ \E base \in RecreateBases, bonus \in RecreateBonuses :
        /\ list' = create(list, base, bonus)
        /\ call' = [NoCall EXCEPT !.op = "create", !.base = base,
                                  !.bonus = bonus]
  /\ output' = <<>>
  /\ UNCHANGED <<panicked, avars, svars, cvars>>

RecreateNext == CreateOnSame

SpecRecreate == DInit /\ [][RecreateNext]_vars

(***************************************************************************)
(* SpecStats: one ActorState and its StatList                              *)
(***************************************************************************)
StatsInit ==
  /\ rules \in StatRulesets
  /\ stats = [a \in Actors |-> ClawStats]
  /\ hp = [a \in Actors |-> 0]
  /\ ap = [a \in Actors |-> 0]
  /\ acall = NoACall
  /\ result = NoResult
  /\ notified = <<>>
  /\ list = DamageList_new
  /\ call = NoCall
  /\ output = <<>>
  /\ panicked = FALSE
  /\ SIdle
  /\ CIdle

\* A call that ran compute_stats, with what it returned, the candidate list
\* it built and the notifications it made.
Computes(op, arg, result_, computed) ==
  /\ state' = computed.self
  /\ ccall' = [op |-> op, arg |-> arg, result |-> result_,
               damage_list |-> computed.damage_list]
  /\ heard' = computed.notices
  /\ UNCHANGED <<dvars, avars, svars>>

\* ActorState::new(actor)
ActorStateNew ==
  /\ ccall.op = "none"
  /\ \E actor_ \in ActorTemplates : state' = ActorState_new(actor_)
  /\ ccall' = [NoCCall EXCEPT !.op = "new"]
  /\ heard' = <<>>
  /\ UNCHANGED <<dvars, avars, svars>>

\* state.equip(index), for the index of an item and for one past the end
Equip(index) ==
  /\ ccall.op # "none"
  /\ LET done == equip(state, index, rules)
     IN Computes("equip", index, done.result, done.computed)

\* state.unequip(slot)
Unequip(slot) ==
  /\ ccall.op # "none"
  /\ LET done == unequip(state, slot, rules)
     IN Computes("unequip", slot, done.result, done.computed)

\* state.compute_stats()
ComputeStats ==
  /\ ccall.op # "none"
  /\ Computes("compute_stats", "none", "none", compute_stats(state, rules))

StatsNext ==
  \/ ActorStateNew
  \/ \E index \in 0..Len(ActorItems) : Equip(index)
  \/ \E slot \in EquipSlots : Unequip(slot)
  \/ ComputeStats

SpecStats == StatsInit /\ [][StatsNext]_vars

(***************************************************************************)
(* Helpers of the properties                                               *)
(***************************************************************************)
Max0(n) == IF n > 0 THEN n ELSE 0

\* The last call was a roll of a list that has components.
Rolled == call.op = "roll" /\ ~panicked /\ list.damage # <<>>

\* The scaled rolls of the last roll, one for each component.
ScaledRolls ==
  [i \in 1..Len(list.damage) |-> Scaled(call.draws[i], call.multiplier)]

\* The armor that is left when component i is reached, in closed form.
ArmorLeftAt(s, armor_amount, i) == Max0(armor_amount - SumTo(s, i - 1))

\* The output that one armor budget gives for the pre-armor amounts s.
BudgetOutput(kinds, s, armor_amount) ==
  LET idx == SelectSeq([i \in 1..Len(s) |-> i],
                       LAMBDA i : s[i] > ArmorLeftAt(s, armor_amount, i))
  IN [j \in 1..Len(idx) |->
        [kind |-> kinds[idx[j]],
         amount |-> s[idx[j]] - ArmorLeftAt(s, armor_amount, idx[j])]]

ListKinds(l) == [i \in 1..Len(l.damage) |-> l.damage[i].kind]

(***************************************************************************)
(* C1..C6: DamageList                                                      *)
(***************************************************************************)
\* C1: roll returns only components whose amount is at least 1; no entry
\* with amount 0 is ever in the output.
C1_RollNeverEmitsZero ==
  call.op = "roll" => \A i \in 1..Len(output) : output[i].amount >= 1

\* A roll in which one component scaled to exactly the armor left (and was
\* dropped) while another component got through.
C1_Witness ==
  /\ Rolled
  /\ output # <<>>
  /\ \E i \in 1..Len(list.damage) :
        ScaledRolls[i] =
          ArmorLeftAt(ScaledRolls, amount(call.armor, list.damage[1].kind), i)

\* C2: roll consumes one armor budget, the armor amount for the kind of
\* component 0, over the components in list order: a component whose scaled
\* roll is at most the armor left is absent and uses up that much armor, a
\* component that exceeds the armor left contributes its remainder and
\* leaves no armor.  The output amounts sum to
\* max(0, sum of scaled rolls - armor of the base kind).
C2_SingleArmorBudget ==
  Rolled =>
    LET armor_amount == amount(call.armor, list.damage[1].kind)
    IN /\ output = BudgetOutput(ListKinds(list), ScaledRolls, armor_amount)
       /\ SumAll(Amounts(output)) = Max0(SumAll(ScaledRolls) - armor_amount)

\* A roll of three components against an armor that differs by kind: the
\* first component is absorbed whole, the second in part, the third not at
\* all.
C2_Witness ==
  /\ Rolled
  /\ Len(list.damage) = 3
  /\ Len(output) = 2
  /\ ScaledRolls[1] > 0
  /\ output[1].amount < ScaledRolls[2]
  /\ output[2].amount = ScaledRolls[3]
  /\ amount(call.armor, list.damage[1].kind)
       # amount(call.armor, list.damage[3].kind)

\* Every component of the list has min = max.
FixedList == \A i \in 1..Len(list.damage) : list.damage[i].min = list.damage[i].max

\* floor(d * multiplier), stated by its defining inequalities
FloorOf(d, multiplier) ==
  CHOOSE t \in 0..(d * multiplier.num) :
     /\ t * multiplier.den <= d * multiplier.num
     /\ d * multiplier.num < (t + 1) * multiplier.den

\* C3: for a list whose components all have min = max the roll is
\* determined by the list, the armor and the multiplier: the pre-armor amount
\* of a component is its value times the multiplier truncated toward zero, and
\* a single component {d, d, K} with multiplier 1 against armor a yields
\* [(K, d - a)] when d > a and [] when d <= a.
C3_FixedRollTruncates ==
  (Rolled /\ FixedList) =>
    LET armor_amount == amount(call.armor, list.damage[1].kind)
        d == list.damage[1].min
        kind == list.damage[1].kind
    IN /\ output = BudgetOutput(ListKinds(list),
                      [i \in 1..Len(list.damage) |->
                          FloorOf(list.damage[i].min, call.multiplier)],
                      armor_amount)
       /\ (Len(list.damage) = 1 /\ call.multiplier = Mult(1, 1)) =>
            output = IF d > armor_amount
                     THEN <<[kind |-> kind, amount |-> d - armor_amount]>>
                     ELSE <<>>

\* A roll of a fixed component whose product with the multiplier has a
\* fractional part of one half, with damage left after armor.
C3_Witness ==
  /\ Rolled /\ FixedList
  /\ output # <<>>
  /\ \E i \in 1..Len(list.damage) :
        (2 * list.damage[i].min * call.multiplier.num)
           % (2 * call.multiplier.den) = call.multiplier.den

\* C4: create with a base Damage that has no kind changes nothing (the
\* components and the aggregate min / max stay as they were), and roll on a
\* list without components returns an empty vector for every armor and
\* multiplier.
C4_CreateRejectsNoKind ==
  /\ [][(call'.op = "create" /\ call'.base.kind = None) => list' = list]_vars
  /\ [](call.op = "roll" /\ list.damage = <<>> => output = <<>> /\ ~panicked)

\* A create without a base kind was called with base damage and with bonus
\* components that have a kind.
C4_Witness ==
  /\ call.op = "create"
  /\ call.base.kind = None
  /\ call.base.max > 0
  /\ \E i \in 1..Len(call.bonus) : call.bonus[i].kind # None

\* The last call was a create that had a base kind.
Created == call.op = "create" /\ call.base.kind # None

\* The bonus components that go to component 0.
BaseBonus ==
  SelectSeq(call.bonus,
            LAMBDA d : d.kind = None \/ d.kind = call.base.kind)

OtherKinds ==
  {call.bonus[i].kind : i \in 1..Len(call.bonus)} \ {None, call.base.kind}

\* C5: create on a new list adds every bonus component that has no kind or
\* the base kind into component 0; the list has 1 + (number of distinct
\* bonus kinds other than the base kind) components, every component has a
\* kind and component 0 has the base kind.
C5_UnsetKindMergesIntoBase ==
  Created =>
    /\ Len(list.damage) = 1 + Cardinality(OtherKinds)
    /\ list.damage[1].kind = call.base.kind
    /\ list.damage[1].min
         = call.base.min + SumAll([i \in 1..Len(BaseBonus) |-> BaseBonus[i].min])
    /\ list.damage[1].max
         = call.base.max + SumAll([i \in 1..Len(BaseBonus) |-> BaseBonus[i].max])
    /\ \A i \in 1..Len(list.damage) : list.damage[i].kind # None
    /\ {list.damage[i].kind : i \in 2..Len(list.damage)} = OtherKinds

\* A create with a bonus without kind and a bonus of another kind, both
\* with damage.
C5_Witness ==
  /\ Created
  /\ \E i, j \in 1..Len(call.bonus) :
        /\ call.bonus[i].kind = None /\ call.bonus[i].max > 0
        /\ call.bonus[j].kind \notin {None, call.base.kind}

\* The min and max a list holds for a kind, summed over its components.
PerKind(l, kind) ==
  LET of == SelectSeq(l.damage, LAMBDA d : d.kind = kind)
  IN <<SumAll([i \in 1..Len(of) |-> of[i].min]),
       SumAll([i \in 1..Len(of) |-> of[i].max])>>

Permuted(v, p) == [i \in 1..Len(v) |-> v[p[i]]]

\* C6: create on a new list is commutative in the order of the bonus
\* components: every permutation of the bonus list gives the same aggregate
\* min and max and the same merged min and max for each kind.
C6_CreateCommutes ==
  Created =>
    \A p \in Permutations(1..Len(call.bonus)) :
       LET other == create(DamageList_new, call.base, Permuted(call.bonus, p))
       IN /\ other.min = list.min
          /\ other.max = list.max
          /\ \A kind \in DamageKinds : PerKind(other, kind) = PerKind(list, kind)

(***************************************************************************)
(* C7..C10: ActorState::attack and the AP of a turn                        *)
(***************************************************************************)
\* The last call was attack on another entity, and it returned.
Attacked == acall.op = "attack" /\ ~panicked

NotifiedActors == {notified[i].actor : i \in 1..Len(notified)}

\* C7: when the attack roll is Miss, attack returns the "Miss" result with
\* no damage, DamageList::roll is not called, the defender's HP is unchanged
\* and the defender's listeners are not notified; no other hit kind returns
\* the "Miss" result.
C7_MissDealsNoDamage ==
  Attacked =>
    IF acall.hit_kind = "Miss"
    THEN /\ result = MissResult
         /\ call.op # "roll"
         /\ output = <<>>
         /\ hp[acall.target] = acall.hp_before
         /\ acall.target \notin NotifiedActors
    ELSE result.text # MissResult.text

\* A miss against a living defender by an attacker whose weakest roll would
\* have got through the defender's armor.
C7_Witness ==
  /\ Attacked
  /\ acall.hit_kind = "Miss"
  /\ hp[acall.target] > 0
  /\ stats[acall.actor].damage.min
       > amount(stats[acall.target].armor,
                stats[acall.actor].damage.damage[1].kind)

\* C8: attack deducts rules.attack_ap from the attacker ahead of the hit
\* roll and for every outcome: after attack the attacker's AP is
\* max(0, AP before - attack_ap), and the attacker's listeners saw that AP
\* before anything else was notified.
C8_AttackAlwaysCostsAp ==
  acall.op = "attack" =>
    /\ ap[acall.actor] = Max0(acall.ap_before - rules.attack_ap)
    /\ Len(notified) >= 1
    /\ notified[1].actor = acall.actor
    /\ notified[1].ap = Max0(acall.ap_before - rules.attack_ap)

\* A miss by an attacker that had AP left to pay.
C8_Witness ==
  /\ Attacked
  /\ acall.hit_kind = "Miss"
  /\ acall.ap_before > 0
  /\ ap[acall.actor] < acall.ap_before

\* The multiplier of the rules for a hit kind.
RulesMultiplier(hit_kind) ==
  CASE hit_kind = "Graze" -> rules.graze_damage_multiplier
    [] hit_kind = "Hit" -> rules.hit_damage_multiplier
    [] hit_kind = "Crit" -> rules.crit_damage_multiplier

\* C9: for a Graze, Hit or Crit, attack calls roll on the attacker's damage
\* list with the defender's armor and the graze, hit or crit multiplier of
\* the rules, and the defender's HP becomes max(0, HP before - sum of the
\* amounts); when roll returns an empty vector the defender's HP is unchanged
\* and remove_hp is not called on the defender.
C9_HitAppliesRolledDamage ==
  (Attacked /\ acall.hit_kind \in {"Graze", "Hit", "Crit"}) =>
    /\ call.op = "roll"
    /\ list = stats[acall.actor].damage
    /\ call.armor = stats[acall.target].armor
    /\ call.multiplier = RulesMultiplier(acall.hit_kind)
    /\ hp[acall.target] = Max0(acall.hp_before - SumAll(Amounts(output)))
    /\ output = <<>> =>
         /\ hp[acall.target] = acall.hp_before
         /\ acall.target \notin NotifiedActors
    /\ output # <<>> => acall.target \in NotifiedActors

\* A crit whose two components both got through the armor and left the
\* defender alive.
C9_Witness ==
  /\ Attacked
  /\ acall.hit_kind = "Crit"
  /\ Len(output) = 2
  /\ hp[acall.target] > 0
  /\ hp[acall.target] < acall.hp_before

\* C10: after init_turn the AP equals rules.base_ap whatever it was before,
\* after end_turn it is 0 whatever it was before, and in every state the AP
\* of every actor lies in [0, rules.base_ap].
C10_ApWithinTurnBudget ==
  /\ acall.op = "init_turn" => ap[acall.actor] = rules.base_ap
  /\ acall.op = "end_turn" => ap[acall.actor] = 0
  /\ \A a \in Actors : ap[a] >= 0 /\ ap[a] <= rules.base_ap

\* init_turn called by an actor that had part of its AP left.
C10_Witness ==
  /\ acall.op = "init_turn"
  /\ acall.ap_before > 0
  /\ acall.ap_before < rules.base_ap

(***************************************************************************)
(* C11..C12, C20: ActorState                                               *)
(***************************************************************************)
\* The u32 n is at least the number k, 0 <= k <= i32::MAX.
AtLeast(n, k) == n.hi = 1 \/ n.lo >= k

\* C11: after any sequence of remove_hp and remove_ap calls HP >= 0 and
\* AP >= 0; remove_hp(n) with n >= HP leaves HP = 0 and is_dead() true, and
\* remove_ap(n) with n >= AP leaves AP = 0.
C11_RemoveClampsAtZero ==
  /\ \A a \in Actors : hp[a] >= 0 /\ ap[a] >= 0
  /\ (acall.op = "remove_hp" /\ AtLeast(acall.n, acall.hp_before)) =>
        /\ hp[acall.actor] = 0
        /\ is_dead(hp[acall.actor])
  /\ (acall.op = "remove_ap" /\ acall.n >= acall.ap_before) =>
        ap[acall.actor] = 0

\* C12: can_attack returns false whenever the attacker's AP is below
\* rules.attack_ap, for every distance and reach; otherwise it returns true
\* exactly when the distance is strictly less than the attacker's reach (a
\* target at distance equal to reach cannot be attacked), and it changes no
\* state.
C12_CanAttackNeedsApAndReach ==
  /\ [](acall.op = "can_attack" =>
          LET a == acall.actor
              dist == acall.n
          IN /\ ap[a] < rules.attack_ap => result.value = FALSE
             /\ ap[a] >= rules.attack_ap =>
                   (result.value <=> dist < stats[a].reach)
             /\ dist = stats[a].reach => result.value = FALSE)
  /\ [][acall'.op = "can_attack" =>
          /\ UNCHANGED <<rules, stats, hp, ap, panicked, svars, cvars>>
          /\ notified' = <<>>]_vars

\* An attacker with the AP for an attack asks about a target exactly at its
\* reach.
C12_Witness ==
  /\ acall.op = "can_attack"
  /\ ap[acall.actor] >= rules.attack_ap
  /\ acall.n = stats[acall.actor].reach
  /\ result.value = FALSE

\* The operations that recompute the stats or change HP or AP.
MutatingOps ==
  {"remove_hp", "remove_ap", "init", "init_turn", "end_turn",
   "compute_stats", "equip", "unequip"}

\* C20: each of remove_hp, remove_ap, init, init_turn, end_turn,
\* compute_stats, equip and unequip notifies the registered listeners, after
\* the change is applied: the listeners see the actor with its new HP and AP.
C20_ListenersNotified ==
  (acall.op \in MutatingOps /\ ~panicked) =>
    /\ notified # <<>>
    /\ notified[Len(notified)] =
         Notice(acall.actor, hp[acall.actor], ap[acall.actor])

(***************************************************************************)
(* C13, C16..C18: ScriptEntity                                             *)
(***************************************************************************)
\* The handle holds an index that the registry resolves.
Resolves(entity) ==
  /\ entity.index # NoIndex
  /\ entity.index[1] \in Slots
  /\ registry[entity.index[1]].live

\* C13: try_unwrap returns the entity exactly when the handle has an index
\* and the registry's entity_checked resolves it; otherwise it returns an
\* error value (never a panic), and the error for a handle with no index
\* ("does not have a valid index") is different from the error for an index
\* that no longer resolves ("refers to an entity that no longer exists").
C13_TryUnwrapTellsErrorsApart ==
  scall.op = "try_unwrap" =>
    LET entity == scall.entity
    IN /\ ~panicked
       /\ sret.ok <=> Resolves(entity)
       /\ sret.ok => sret.value = entity.index[1]
       /\ entity.index = NoIndex =>
            sret = Err("ScriptEntity does not have a valid index")
       /\ (entity.index # NoIndex /\ ~Resolves(entity)) =>
            /\ sret =
                 Err("ScriptEntity refers to an entity that no longer exists.")
            /\ sret # Err("ScriptEntity does not have a valid index")

\* try_unwrap on a handle whose index is a slot of the registry that holds no
\* entity.
C13_Witness ==
  /\ scall.op = "try_unwrap"
  /\ ~sret.ok
  /\ scall.entity.index # NoIndex
  /\ scall.entity.index[1] \in Slots

\* The animated attack calls.
AnimCalls == {"anim_weapon_attack", "anim_special_attack"}

\* C16: anim_weapon_attack and anim_special_attack invoked with a target
\* handle whose index equals the parent's index return an error before any
\* entity is resolved (the error is the one of check_not_equal even when the
\* index is absent or stale), any animation is queued or any HP/AP is
\* changed.
C16_AnimAttacksRejectSelf ==
  [][(scall'.op \in AnimCalls /\ scall'.entity.index = scall'.target.index)
       => /\ sret' = Err("Parent and target must not match")
          /\ queued' = <<>>
          /\ registry' = registry
          /\ UNCHANGED <<hp, ap, panicked>>]_vars

\* An animated attack of a live entity on itself was refused.
C16_Witness ==
  /\ scall.op \in AnimCalls
  /\ scall.entity.index = scall.target.index
  /\ Resolves(scall.entity)
  /\ ~sret.ok

\* The script calls named by C17.
HandleOps ==
  {"weapon_attack", "special_attack", "take_damage", "remove_ap", "is_dead",
   "remove", "heal_damage", "create_effect", "create_targeter"}

\* The calls that only build a description of an effect or a targeter.
BuilderOps == {"create_effect", "create_targeter"}

\* The calls that take a second handle.
TwoHandleOps == {"weapon_attack", "special_attack", "take_damage"}

C18_UseApDefaultsToTrue ==
  (scall.op = "anim_weapon_attack" /\ sret.ok) =>
    /\ Len(queued) = 1
    /\ queued[1].use_ap = (scall.arg # Some(FALSE))

(***************************************************************************)
(* C14, C15, C19: ScriptEntitySet                                          *)
(***************************************************************************)
FilterNames ==
  {"without_self", "visible_within", "visible", "hostile", "friendly",
   "reachable", "attackable", "threatening"}

\* The last call was a filter of eset (which a filter leaves as it is).
FilterCalled == scall.op \in FilterNames

\* Every index of the list is present and resolves in the registry.
AllResolve(indices) ==
  \A i \in 1..Len(indices) : Resolves(ScriptEntity(indices[i]))

\* C14 as stated: every filter is total: applied to any set, including one
\* that holds stale or absent indices, it returns a set and never an error,
\* and the stale indices are left out of the result.
C14_FiltersAreTotal ==
  FilterCalled => sret.ok /\ AllResolve(sret.value.indices)

\* C14, amended: applied to a set whose parent index resolves in the
\* registry, every filter returns a set, whatever stale or absent target
\* indices the set holds, and the stale and absent indices are left out of the
\* result; applied to a set whose parent index no longer resolves, every
\* filter returns the error of try_unwrap ("refers to an entity that no longer
\* exists") and no set.
C14_FiltersDropStaleTargets ==
  FilterCalled =>
    IF Resolves(ScriptEntity(Some(eset.parent)))
    THEN sret.ok /\ AllResolve(sret.value.indices)
    ELSE sret =
           Err("ScriptEntity refers to an entity that no longer exists.")

\* A filter of a set with a live parent dropped a stale or absent target and
\* kept another one.
C14_Witness ==
  /\ FilterCalled
  /\ sret.ok
  /\ ~AllResolve(eset.indices)
  /\ sret.value.indices # <<>>

\* The positions of the input whose entry has an index, resolves and
\* satisfies the predicate of the last filter for (parent, candidate).
KeptPositions ==
  {i \in 1..Len(eset.indices) :
     /\ Resolves(ScriptEntity(eset.indices[i]))
     /\ Predicate(scall.op, scall.arg, registry, eset.parent,
                  eset.indices[i][1])}

\* C15: a filter does not mutate its input set or any entity, and its result
\* has the same parent, selected_point, affected_points and surface as the
\* input; the result's indices are the subsequence of the input's indices
\* (same relative order, duplicates kept) made of exactly the entries that
\* have an index, resolve in the registry and satisfy the predicate for
\* (parent, candidate).
C15_FilterIsPureSubsequence ==
  /\ [][scall'.op \in FilterNames =>
          /\ eset' = eset
          /\ registry' = registry
          /\ UNCHANGED <<hp, ap, stats>>]_vars
  /\ []((FilterCalled /\ sret.ok) =>
          LET out == sret.value
          IN /\ out.parent = eset.parent
             /\ out.selected_point = eset.selected_point
             /\ out.affected_points = eset.affected_points
             /\ out.surface = eset.surface
             /\ Len(out.indices) = Cardinality(KeptPositions)
             /\ \A i \in KeptPositions :
                  out.indices[Cardinality({k \in KeptPositions : k <= i})]
                    = eset.indices[i])

\* A filter of a set that has a surface and a selected point kept two
\* different targets, in their order.
C15_Witness ==
  /\ FilterCalled
  /\ sret.ok
  /\ eset.surface # NoIndex
  /\ Len(sret.value.indices) = 2
  /\ sret.value.indices[1] # sret.value.indices[2]

\* The indices that are present in a list of targets.
Present(indices) ==
  {indices[i][1] : i \in {j \in 1..Len(indices) : indices[j] # NoIndex}}

\* C19: update_entity_refs_on_load succeeds exactly when the set's parent and
\* every present target index are keys of the remap table; on success the
\* parent and each present target are replaced by the index of the entity
\* they map to, absent targets stay absent, and the length and order of the
\* target list are preserved; when the parent or any present target is
\* missing it returns an invalid-data error.
C19_ReloadRemapsOrFails ==
  [][scall'.op = "update_entity_refs_on_load" =>
       LET entities == scall'.arg
           success == /\ eset.parent \in DOMAIN entities
                      /\ Present(eset.indices) \subseteq DOMAIN entities
       IN /\ sret'.ok <=> success
          /\ success =>
               /\ eset'.parent = entities[eset.parent]
               /\ Len(eset'.indices) = Len(eset.indices)
               /\ \A i \in 1..Len(eset.indices) :
                    eset'.indices[i] =
                      IF eset.indices[i] = NoIndex THEN NoIndex
                      ELSE Some(entities[eset.indices[i][1]])
          /\ ~success => sret'.kind = "InvalidData"]_vars

\* A reload that succeeded on a set with an absent target and a target whose
\* index changed.
C19_Witness ==
  /\ scall.op = "update_entity_refs_on_load"
  /\ sret.ok
  /\ Len(eset.indices) = 2
  /\ eset.indices[1] = NoIndex
  /\ eset.indices[2] # NoIndex
  /\ \A k \in DOMAIN scall.arg : scall.arg[k] # k

(***************************************************************************)
(* C29, C30: the order of the output of roll and its use of the armor      *)
(***************************************************************************)
\* The place of a kind in a list whose component 0 has the kind base_kind:
\* the base kind comes first, the other kinds follow in the order of the
\* enum.
ComponentRank(kind, base_kind) == IF kind = base_kind THEN 0 ELSE KindOrd(kind)

\* The sequence is strictly ascending.
Ascending(ranks) ==
  \A j \in 1..Len(ranks) : \A k \in 1..Len(ranks) : j < k => ranks[j] < ranks[k]

\* One output entry for every component with a scaled roll that is not
\* zero, each with its whole scaled roll, in component order.
NonZeroRolls(l, s) ==
  LET idx == SelectSeq([i \in 1..Len(s) |-> i], LAMBDA i : s[i] # 0)
  IN [j \in 1..Len(idx) |->
        [kind |-> l.damage[idx[j]].kind, amount |-> s[idx[j]]]]

\* Scenario 3 of the specification: base {1,1,Slashing} with the bonus
\* {2,2,Fire}, rolled with multiplier 1 against every armor that gives 0
\* for Slashing.
Scenario3 ==
  LET l == create(DamageList_new, Damage(1, 1, "Slashing"),
                  <<Damage(2, 2, "Fire")>>)
  IN \A armor \in Armors :
        amount(armor, "Slashing") = 0 =>
          roll(l, armor, Mult(1, 1), <<1, 2>>)
            = <<[kind |-> "Slashing", amount |-> 1],
                [kind |-> "Fire", amount |-> 2]>>

DifferElsewhere(a1, a2, kind) ==
  \A k \in DamageKinds \ {kind} : amount(a1, k) # amount(a2, k)

\* C30: roll reads the armor only through the amount for the kind of
\* component 0; with the same list, multiplier and draws, every armor that
\* gives the same amount for that kind gives the same output, whatever it
\* gives for the other kinds.
C30_OnlyBaseArmorCounts ==
  Rolled =>
    \A armor \in Armors :
       amount(armor, list.damage[1].kind)
         = amount(call.armor, list.damage[1].kind)
       => roll(list, armor, call.multiplier, call.draws) = output

\* A roll with a bonus component that got through, for which another armor
\* agrees on the base kind and differs on every other kind.
C30_Witness ==
  /\ Rolled
  /\ Len(list.damage) >= 2
  /\ \E j \in 1..Len(output) : output[j].kind # list.damage[1].kind
  /\ \E armor \in Armors :
        /\ amount(armor, list.damage[1].kind)
             = amount(call.armor, list.damage[1].kind)
        /\ DifferElsewhere(armor, call.armor, list.damage[1].kind)

(***************************************************************************)
(* C25: create and roll return                                             *)
(***************************************************************************)
\* C25: DamageList::create and DamageList::roll never abort: for every
\* Damage that can be loaded, min > max included, and every armor and
\* multiplier, the call returns a result.
C25_CreateAndRollReturn == call.op \in {"create", "roll"} => ~panicked

(***************************************************************************)
(* C21, C22, C27, C28: compute_stats                                       *)
(***************************************************************************)
\* The last call ran compute_stats.
Computing == ccall.op \in {"equip", "unequip", "compute_stats"}

\* The item worn in a slot that holds one.
WornItem(inventory, slot) ==
  inventory.items[inventory.equipped[slot][1] + 1]

Worn(inventory, slot) == inventory.equipped[slot] # Absent

HasBaseDamage(item) ==
  /\ item.equippable # Absent
  /\ item.equippable[1].bonuses.base_damage # Absent

\* The base damages of the equipped items that define one, in slot order.
ItemDamages(inventory) ==
  LET slots == SelectSeq(EquipSlot,
                 LAMBDA slot : /\ Worn(inventory, slot)
                               /\ HasBaseDamage(WornItem(inventory, slot)))
  IN [j \in 1..Len(slots) |->
        WornItem(inventory, slots[j]).equippable[1].bonuses.base_damage[1]]

\* The candidate list: the damages of the items, or else the innate damage
\* of the race when it has one.
Candidates(self) ==
  LET race_damage == self.actor.race.base_stats.base_damage
  IN IF ItemDamages(self.inventory) # <<>> THEN ItemDamages(self.inventory)
     ELSE IF race_damage # Absent THEN <<race_damage[1]>>
     ELSE <<>>

\* The sum of one additive value over the race, the class levels and the
\* equipped items that have equippable data.
Total(self, value(_)) ==
  value(self.actor.race.base_stats)
  + SumAll([i \in 1..Len(self.actor.levels) |->
              value(self.actor.levels[i][1].bonuses_per_level)
                * self.actor.levels[i][2]])
  + SumAll([i \in 1..Len(EquipSlot) |->
              IF /\ Worn(self.inventory, EquipSlot[i])
                 /\ WornItem(self.inventory, EquipSlot[i]).equippable # Absent
              THEN value(WornItem(self.inventory,
                                  EquipSlot[i]).equippable[1].bonuses)
              ELSE 0])

\* The stats that the rules, the actor and the equipped items determine.
StatsFor(self, rules_) ==
  LET hit_points(bonuses) == bonuses.hit_points
      armor(bonuses) == bonuses.armor
  IN [initiative |-> rules_.base_initiative,
      hit_points |-> Total(self, hit_points),
      armor |-> Total(self, armor),
      damage |-> create(DamageList_new,
                        compute_damage_from(Candidates(self)), <<>>)]

\* StatLists an ActorState may hold when compute_stats is called: the
\* default, the one it holds now, and one that differs from both in every
\* field.
PriorStats ==
  {StatList_default,
   state.stats,
   [initiative |-> MaxLevel + 1,
    hit_points |-> state.stats.hit_points + 1,
    armor |-> state.stats.armor + 1,
    damage |-> create(DamageList_new, Damage(MaxDmg, MaxDmg, "Fire"), <<>>)]}

C22_StatsAlwaysReflectEquipment ==
  ccall.op # "none" => state.stats = StatsFor(state, rules)

\* C22 amended: when equip, unequip or compute_stats returns, whatever it
\* reports, the StatList equals the stats computed from the items equipped
\* at that point; ActorState::new equips the to_equip items and returns
\* with StatList::default().
C22_StatsReflectEquipmentOnceComputed ==
  /\ Computing => state.stats = StatsFor(state, rules)
  /\ ccall.op = "new" =>
       /\ state.stats = StatList_default
       /\ state.inventory
            = EquipAll(Inventory_new(state.actor), state.actor.to_equip)

\* equip was refused for an index past the end of the items, on an actor
\* that wears the shield: the stats hold the bonuses of the shield.
C22_Witness ==
  /\ ccall.op = "equip"
  /\ ccall.result = FALSE
  /\ state.inventory.equipped["HeldOff"] = Some(2)
  /\ state.stats.armor > 0
  /\ state.stats # StatList_default

\* C27: compute_stats notifies the listeners exactly once in a call, with
\* the finalized stats: what the listeners see is the StatList that the call
\* leaves, never the reset one or one in between.
C27_NotifiesOnceWhenFinalized ==
  Computing => heard = <<state.stats>>

\* equip succeeded and the listeners saw one StatList, with a damage
\* profile and values that the reset StatList does not have.
C27_Witness ==
  /\ ccall.op = "equip"
  /\ ccall.result = TRUE
  /\ Len(heard) = 1
  /\ heard[1].damage.damage # <<>>
  /\ heard[1].hit_points > 0
  /\ heard[1] # StatList_default

\* C28: the candidate list handed to compute_damage_from holds one entry for
\* each equipped item that defines a base damage, in slot order; it holds
\* the innate damage of the race, when the race has one, exactly when no
\* equipped item defines a base damage; an equipped item without equippable
\* data changes neither the candidates nor the stats.
C28_BaseDamageCandidates ==
  Computing =>
    LET race_damage == state.actor.race.base_stats.base_damage
    IN /\ ItemDamages(state.inventory) # <<>> =>
            ccall.damage_list = ItemDamages(state.inventory)
       /\ ItemDamages(state.inventory) = <<>> =>
            ccall.damage_list = IF race_damage # Absent
                                THEN <<race_damage[1]>> ELSE <<>>
       /\ \A slot \in EquipSlots :
             (/\ Worn(state.inventory, slot)
              /\ WornItem(state.inventory, slot).equippable = Absent)
             => LET bare == [state EXCEPT !.inventory.equipped[slot] = Absent]
                    computed == compute_stats(bare, rules)
                IN /\ computed.self.stats = state.stats
                   /\ computed.damage_list = ccall.damage_list

\* The stats were computed for an actor of the race with an innate damage
\* that wears the sword, the dagger and the shirt without equippable data:
\* two candidates, neither of them the damage of the race.
C28_Witness ==
  /\ Computing
  /\ state.actor.race.base_stats.base_damage # Absent
  /\ state.inventory.equipped["HeldMain"] = Some(0)
  /\ state.inventory.equipped["HeldOff"] = Some(1)
  /\ state.inventory.equipped["Torso"] = Some(3)
  /\ Len(ccall.damage_list) = 2

(***************************************************************************)
(* C23: remove                                                             *)
(***************************************************************************)
\* The handle resolves through try_unwrap and is_valid in the registry.
StillThere(entity, reg) ==
  /\ try_unwrap(entity, reg).ok
  /\ is_valid(entity, reg) = Ok(TRUE)

\* C23: remove only marks the entity for removal: right after the call the
\* handle still resolves through try_unwrap and is_valid, and a handle that
\* resolves keeps resolving through every later call until the sweep of the
\* registry between two update ticks.
C23_RemoveOnlyMarks ==
  /\ [][(scall'.op = "remove" /\ sret'.ok) =>
          LET i == scall'.entity.index[1]
          IN /\ registry[i].live
             /\ registry' = [registry EXCEPT ![i].marked_for_removal = TRUE]
             /\ StillThere(scall'.entity, registry')]_vars
  /\ [][\A entity \in ScriptEntities :
          (scall'.op # "sweep" /\ StillThere(entity, registry))
          => StillThere(entity, registry')]_vars

\* is_valid was asked of a handle whose entity is marked for removal and
\* not yet swept, and answered true.
C23_Witness ==
  /\ scall.op = "is_valid"
  /\ sret = Ok(TRUE)
  /\ registry[scall.entity.index[1]].marked_for_removal
  /\ try_unwrap(scall.entity, registry).ok

(***************************************************************************)
(* C24: first and is_empty                                                 *)
(***************************************************************************)
\* C24: first returns the first target of the set and fails only when the
\* set is empty: it returns an error exactly when is_empty returns true.
C24_FirstFailsIffEmpty ==
  scall.op = "first" =>
    /\ ~sret.ok <=> is_empty(eset).value
    /\ sret.ok =>
         \E i \in 1..Len(eset.indices) :
            /\ sret.value = ScriptEntity(eset.indices[i])
            /\ \A j \in 1..(i - 1) : eset.indices[j] = NoIndex

(***************************************************************************)
(* C26: targets                                                            *)
(***************************************************************************)
\* The entity of slot i is a possible target of the parent.
PossibleTarget(parent, i) ==
  /\ registry[i].live
  /\ registry[i].area = registry[parent].area
  /\ registry[i].hp > 0
  /\ ~(is_hostile(registry, parent, i) /\ registry[i].hidden)

\* C26: targets fails exactly for a handle that does not resolve; the set
\* it builds has the index of the parent as parent and lists, by ascending
\* index of the registry and each once, exactly the entities that are in the
\* area of the parent, are not dead and are not both hostile to the parent
\* and hidden; every index of the set resolves in the registry.
C26_TargetsOfTheArea ==
  scall.op = "targets" =>
    /\ sret.ok <=> (/\ scall.entity.index # NoIndex
                    /\ scall.entity.index[1] \in DOMAIN registry
                    /\ registry[scall.entity.index[1]].live)
    /\ sret.ok =>
         LET set == sret.value
             parent == scall.entity.index[1]
         IN /\ set.parent = parent
            /\ \A k \in 1..Len(set.indices) :
                  /\ set.indices[k] # NoIndex
                  /\ try_unwrap(ScriptEntity(set.indices[k]), registry).ok
            /\ \A j \in 1..Len(set.indices) : \A k \in 1..Len(set.indices) :
                  j < k => set.indices[j][1] < set.indices[k][1]
            /\ \A i \in DOMAIN registry :
                  (\E k \in 1..Len(set.indices) : set.indices[k] = Some(i))
                  <=> PossibleTarget(parent, i)

\* targets of a living player character: a hidden hostile of its area is
\* left out, a hidden party member is in the set, after the parent itself.
C26_Witness ==
  /\ scall.op = "targets"
  /\ sret.ok
  /\ scall.entity = ScriptEntity(Some(0))
  /\ sret.value.indices = <<Some(0), Some(2)>>
  /\ registry[1].live /\ registry[1].hidden /\ registry[1].hp > 0
  /\ registry[1].area = registry[0].area
  /\ registry[2].hidden

(***************************************************************************)
(* C31, C32: the aggregate min and max                                     *)
(***************************************************************************)
ComponentMin(l) == SumAll([i \in 1..Len(l.damage) |-> l.damage[i].min])

ComponentMax(l) == SumAll([i \in 1..Len(l.damage) |-> l.damage[i].max])

\* C31: after create on a new list the aggregate min and max are the sums
\* of the min and max of the components, and are the base plus all the
\* bonuses; a roll with multiplier 1 totals, before armor, a value between
\* min() and max().
C31_AggregateIsSumOfComponents ==
  /\ Created =>
       /\ list.min = ComponentMin(list)
       /\ list.max = ComponentMax(list)
       /\ list.min = call.base.min
                       + SumAll([i \in 1..Len(call.bonus) |-> call.bonus[i].min])
       /\ list.max = call.base.max
                       + SumAll([i \in 1..Len(call.bonus) |-> call.bonus[i].max])
  /\ (Rolled /\ call.multiplier = Mult(1, 1)) =>
       /\ list.min <= SumAll(ScaledRolls)
       /\ SumAll(ScaledRolls) <= list.max

\* C32: after any sequence of create calls on the same list the kinds of
\* the components are pairwise distinct, component 0 has the kind of the
\* most recent base, and the aggregate min and max are the sums of the min
\* and max of the components.
C32_RepeatedCreateKeepsShape ==
  Created =>
    /\ \A i \in 1..Len(list.damage) : \A j \in 1..Len(list.damage) :
          i # j => list.damage[i].kind # list.damage[j].kind
    /\ list.damage[1].kind = call.base.kind
    /\ list.min = ComponentMin(list)
    /\ list.max = ComponentMax(list)

(***************************************************************************)
(* C33, C34: remove_hp and death                                           *)
(***************************************************************************)
\* C33: remove_hp(n) never increases HP: for every u32 n, the amounts above
\* i32::MAX included, and every HP >= 0, HP after the call is at most HP
\* before it.
C33_RemoveHpNeverHeals ==
  (acall.op = "remove_hp" /\ acall.hp_before >= 0) =>
    hp[acall.actor] <= acall.hp_before

\* C34: death is absorbing: an actor for which is_dead() is true stays dead
\* through remove_hp, remove_ap, attack, init_turn and end_turn; only init
\* makes is_dead() false again.
C34_DeathIsAbsorbing ==
  [][\A a \in Actors :
       (is_dead(hp[a]) /\ ~is_dead(hp'[a]))
       => (acall'.op = "init" /\ acall'.actor = a)]_vars

(***************************************************************************)
(* C35: a reload that fails                                                *)
(***************************************************************************)
\* C35: a failed update_entity_refs_on_load leaves the set as it was: when
\* the error is returned, for a missing parent or for a missing target, the
\* parent and the list of target indices are unchanged.
C35_FailedReloadChangesNothing ==
  [][(scall'.op = "update_entity_refs_on_load" /\ ~sret'.ok) =>
       /\ eset'.parent = eset.parent
       /\ eset'.indices = eset.indices]_vars

(***************************************************************************)
(* C36, C37: the algebra of the filters                                    *)
(***************************************************************************)
\* The filter g applied to what a filter returned; an error stays the error.
Then(returned, g) ==
  IF returned.ok THEN filter_entities(returned.value, g[1], g[2], registry)
  ELSE returned

\* C36: with the registry unchanged every filter is idempotent, and any two
\* filters commute: the filter that was called, applied to its own result,
\* returns that result again, and followed by any filter g it returns what g
\* followed by it returns, the same indices in the same order.
C36_FiltersIdempotentAndCommute ==
  FilterCalled =>
    LET f == <<scall.op, scall.arg>>
    IN /\ Then(sret, f) = sret
       /\ \A g \in Filters :
             Then(sret, g) = Then(filter_entities(eset, g[1], g[2], registry), f)

\* A filter kept the first of two targets and dropped the second; another
\* filter keeps the second and drops the first, so the two in either order
\* return no target.
C36_Witness ==
  /\ FilterCalled
  /\ sret.ok
  /\ Len(eset.indices) = 2
  /\ Len(sret.value.indices) = 1
  /\ sret.value.indices[1] = eset.indices[1]
  /\ \E g \in Filters :
        /\ Then(sret, g).value.indices = <<>>
        /\ filter_entities(eset, g[1], g[2], registry).value.indices
             = <<eset.indices[2]>>

\* set.hostile() and set.friendly() of the set at hand
HostileOf(set) == filter_entities(set, "hostile", "none", registry)

FriendlyOf(set) == filter_entities(set, "friendly", "none", registry)

\* The positions of the set's targets that resolve in the registry.
ResolvablePositions ==
  {i \in 1..Len(eset.indices) : Resolves(ScriptEntity(eset.indices[i]))}

\* The entries of the sequence at the positions of S, in their order.
RECURSIVE Pick(_, _, _)
Pick(seq, S, i) ==
  IF i > Len(seq) THEN <<>>
  ELSE (IF i \in S THEN <<seq[i]>> ELSE <<>>) \o Pick(seq, S, i + 1)

\* The two lists split the resolvable targets of eset: every resolvable
\* position went to exactly one of them, and each holds its positions in the
\* order of the input.
Partition(hostile, friendly) ==
  \E H \in SUBSET ResolvablePositions :
     /\ hostile = Pick(eset.indices, H, 1)
     /\ friendly = Pick(eset.indices, ResolvablePositions \ H, 1)

HostileOrFriendlyCalled == scall.op \in {"hostile", "friendly"}

\* C37 as stated: hostile and friendly partition the resolvable targets of a
\* set: whenever the set holds a target that resolves in the registry, both
\* return a set, every resolvable target appears in exactly one of them, and
\* the two results interleaved in input order give back the input's
\* resolvable targets.
C37_HostileFriendlyPartition ==
  (HostileOrFriendlyCalled /\ ResolvablePositions # {}) =>
    /\ HostileOf(eset).ok
    /\ FriendlyOf(eset).ok
    /\ Partition(HostileOf(eset).value.indices,
                 FriendlyOf(eset).value.indices)

\* C37, amended: for a set whose parent index resolves in the registry,
\* hostile and friendly partition the resolvable targets: every target that
\* resolves appears in exactly one of the two results, and the two results
\* interleaved in input order give back the input's resolvable targets; for
\* a set whose parent index no longer resolves both return the error of
\* try_unwrap and no set.
C37_HostileFriendlyPartitionForLiveParent ==
  HostileOrFriendlyCalled =>
    /\ sret = (IF scall.op = "hostile" THEN HostileOf(eset)
               ELSE FriendlyOf(eset))
    /\ IF Resolves(ScriptEntity(Some(eset.parent)))
       THEN /\ HostileOf(eset).ok
            /\ FriendlyOf(eset).ok
            /\ Partition(HostileOf(eset).value.indices,
                         FriendlyOf(eset).value.indices)
       ELSE /\ HostileOf(eset) =
                 Err("ScriptEntity refers to an entity that no longer exists.")
            /\ FriendlyOf(eset) = HostileOf(eset)

\* hostile or friendly was called on a set of a hostile target and the
\* parent itself: each of the two results holds one of them.
C37_Witness ==
  /\ HostileOrFriendlyCalled
  /\ sret.ok
  /\ Len(eset.indices) = 2
  /\ Some(eset.parent) \in {eset.indices[1], eset.indices[2]}
  /\ Len(HostileOf(eset).value.indices) = 1
  /\ Len(FriendlyOf(eset).value.indices) = 1

(***************************************************************************)
(* C38: an attack of an entity on itself                                   *)
(***************************************************************************)
\* The synchronous attack calls.
SyncAttackCalls == {"weapon_attack", "special_attack"}

\* C38: no attack entry point resolves an attack of an entity against
\* itself: weapon_attack and special_attack invoked with a target handle
\* equal to the parent return an error, like the animated calls, before any
\* HP or AP changes and without aborting on a conflicting borrow of the
\* entity.
C38_SyncAttacksRejectSelf ==
  [][(scall'.op \in SyncAttackCalls
        /\ scall'.entity.index = scall'.target.index)
       => /\ ~panicked'
          /\ ~sret'.ok
          /\ queued' = <<>>
          /\ registry' = registry
          /\ UNCHANGED <<hp, ap>>]_vars

====
